---- MODULE Spec2Model ----
(***************************************************************************)
(* A model of the midi20 crate: the UMP packet view, the message           *)
(* categories with their constructors and status classification, the       *)
(* word codec (codec::encode / codec::decode) and the byte stream reader   *)
(* (UMP::stream_from_bytes) with the MidiMessage conversion.               *)
(*                                                                         *)
(* Representation.  A u8 is an integer 0..255 and a u16 an integer         *)
(* 0..65535.  A u32 is the tuple of its four bytes, most significant       *)
(* first, so that no 32-bit value leaves the integer range of the model    *)
(* checker and every shift and mask of the source is computed byte-exact.  *)
(* The byte order of the host and the build profile (debug assertions on   *)
(* or off) are properties of the build: both are chosen in Init.           *)
(***************************************************************************)
EXTENDS Integers, Sequences, FiniteSets, TLC

----------------------------------------------------------------------------
(* Bounds of the model *)

\* longest input buffer handed to codec::decode
MaxBufLen == 17
\* the longest output buffers handed to codec::encode hold MaxOutWords words
\* (and three bytes more)
MaxOutWords == 4
\* most packets in one input of the stream reader
MaxPackets == 3
\* most calls of next() that return None on one stream
MaxEndCalls == 2

----------------------------------------------------------------------------
(* Program constants *)

\* core::mem::size_of::<u32>()
WordBytes == 4

\* the outcome of a call that panicked (unreachable!, a failed debug_assert!)
Panic == "panic"
\* no message
NoMsg == [cat |-> "none", packet |-> <<>>]
\* a constructor or builder call that panicked instead of returning a message
PanicMsg == [cat |-> "panic", packet |-> <<>>]

----------------------------------------------------------------------------
(* Fixed-width integer arithmetic *)

Pow2(n) == 2 ^ n

RECURSIVE BitOr(_, _, _)
\* a | b on n-bit operands
BitOr(a, b, n) ==
  IF n = 0 THEN 0
  ELSE (IF a % 2 = 1 \/ b % 2 = 1 THEN 1 ELSE 0)
       + 2 * BitOr(a \div 2, b \div 2, n - 1)

RECURSIVE BitAnd(_, _, _)
\* a & b on n-bit operands
BitAnd(a, b, n) ==
  IF n = 0 THEN 0
  ELSE (IF a % 2 = 1 /\ b % 2 = 1 THEN 1 ELSE 0)
       + 2 * BitAnd(a \div 2, b \div 2, n - 1)

\* u32 from its bytes, most significant first (u32::from_be_bytes)
from_be_bytes(bs) == <<bs[1], bs[2], bs[3], bs[4]>>

\* the bytes of a u32, most significant first (u32::to_be_bytes)
to_be_bytes(w) == <<w[1], w[2], w[3], w[4]>>

\* the bytes of a u32 in the memory order of host h (u32::to_ne_bytes)
to_ne_bytes(h, w) ==
  IF h = "be" THEN <<w[1], w[2], w[3], w[4]>>
  ELSE <<w[4], w[3], w[2], w[1]>>

\* a u32 from bytes in the memory order of host h (u32::from_ne_bytes)
from_ne_bytes(h, bs) ==
  IF h = "be" THEN <<bs[1], bs[2], bs[3], bs[4]>>
  ELSE <<bs[4], bs[3], bs[2], bs[1]>>

\* x as u32, for a u8 x
U8asU32(x) == <<0, 0, 0, x>>

\* x as u32, for a u16 x
U16asU32(x) == <<0, 0, x \div 256, x % 256>>

\* w as u8 (truncation)
U32asU8(w) == w[4]

\* w as u16 (truncation)
U32asU16(w) == w[3] * 256 + w[4]

\* byte i (1 = most significant) of w, 0 outside the word
ByteAt(w, i) == IF i >= 1 /\ i <= 4 THEN w[i] ELSE 0

\* w >> n on u32, 0 <= n < 32
Shr32(w, n) ==
  LET q == n \div 8
      r == n % 8
  IN [i \in 1..4 |->
        (ByteAt(w, i - q) \div Pow2(r))
        + (ByteAt(w, i - q - 1) % Pow2(r)) * Pow2(8 - r)]

\* w << n on u32, 0 <= n < 32 (bits shifted out are lost)
Shl32(w, n) ==
  LET q == n \div 8
      r == n % 8
  IN [i \in 1..4 |->
        ((ByteAt(w, i + q) * Pow2(r)) % 256)
        + (ByteAt(w, i + q + 1) \div Pow2(8 - r))]

\* a | b on u32
Or32(a, b) == [i \in 1..4 |-> BitOr(a[i], b[i], 8)]

\* a & b on u32
And32(a, b) == [i \in 1..4 |-> BitAnd(a[i], b[i], 8)]

\* the u32 literal 0xAABBCCDD written as its four bytes
Lit(a, b, c, d) == <<a, b, c, d>>

\* x >> n on u16
Shr16(x, n) == x \div Pow2(n)

\* x << n on u16 (bits shifted out are lost)
Shl16(x, n) == (x * Pow2(n)) % 65536

----------------------------------------------------------------------------
(* packet.rs: the header fields of a packet (a sequence of words) *)

\* Packet::message_type
Packet_message_type(p) == to_be_bytes(p[1])[1] \div 16

\* Packet::group
Packet_group(p) == BitAnd(to_be_bytes(p[1])[1], 15, 8)

\* Packet::status
Packet_status(p) == to_be_bytes(p[1])[2]

\* impl From<u8> for MessageType
MessageType(value) ==
  CASE value = 0 -> "Utility"
    [] value = 1 -> "System"
    [] value = 2 -> "LegacyChannelVoice"
    [] value = 3 -> "Data64"
    [] value = 4 -> "ChannelVoice"
    [] value = 5 -> "Data128"
    [] value = 6 -> "Reserved6"
    [] value = 7 -> "Reserved7"
    [] value = 8 -> "Reserved8"
    [] value = 9 -> "Reserved9"
    [] value = 10 -> "Reserved10"
    [] value = 11 -> "Reserved11"
    [] value = 12 -> "Reserved12"
    [] value = 13 -> "Flex"
    [] value = 14 -> "Reserved14"
    [] value = 15 -> "UmpStream"
    [] OTHER -> Panic

\* a message of category cat wrapping packet p (the tuple structs Utility(Packet32), ...)
Msg(cat, p) == [cat |-> cat, packet |-> p]

\* w < n for a u32 w and a small literal n (n <= 256)
Lt32(w, n) == w[1] = 0 /\ w[2] = 0 /\ w[3] = 0 /\ w[4] < n

\* message_type() of every category: the type nibble, checked by a
\* debug_assert! against the category's own type
Message_message_type(b, m, own) ==
  LET type_ == MessageType(Packet_message_type(m.packet))
  IN IF b = "debug" /\ type_ # own THEN Panic ELSE type_

----------------------------------------------------------------------------
(* message/utility.rs *)

\* Utility::jr_timestamp
Utility_jr_timestamp(timestamp) ==
  Msg("Utility", <<Or32(Lit(\H00, \H20, \H00, \H00), U16asU32(timestamp))>>)

\* Utility::jr_clock
Utility_jr_clock(clock) ==
  Msg("Utility", <<Or32(Lit(\H00, \H20, \H00, \H00), U16asU32(clock))>>)

\* Utility::delta_clockstamp
Utility_delta_clockstamp(clock) ==
  Msg("Utility", <<Or32(Lit(\H00, \H20, \H00, \H00), U16asU32(clock))>>)

\* Utility::delta_clockstamp_ticks_per_quarternote
Utility_delta_clockstamp_ticks_per_quarternote(clock) ==
  Msg("Utility", <<Or32(Lit(\H00, \H20, \H00, \H00), U16asU32(clock))>>)

\* Utility::message_type
Utility_message_type(b, m) == Message_message_type(b, m, "Utility")

\* Utility::status
Utility_status(m) ==
  LET status == Packet_status(m.packet)
  IN CASE status = 0 -> "NoOp"
       [] status = 1 -> "JrTimestamp"
       [] status = 2 -> "JrClock"
       [] status = 3 -> "DataClockstampTicksPerQuarternote"
       [] status = 4 -> "DeltaClockstamp"
       [] OTHER -> Panic

\* Utility::data
Utility_data(m) == U32asU16(And32(m.packet[1], Lit(\H00, \H00, \Hff, \Hff)))

----------------------------------------------------------------------------
(* message/system.rs *)

\* System::message_type
System_message_type(b, m) == Message_message_type(b, m, "System")

\* System::status
System_status(m) ==
  LET status == Packet_status(m.packet)
  IN CASE status = \Hf1 -> "TimeCode"
       [] status = \Hf2 -> "SongPositionPointer"
       [] status = \Hf3 -> "SongSelect"
       [] status = \Hf6 -> "TuneRequest"
       [] status = \Hf8 -> "TimingClock"
       [] status = \Hfa -> "Start"
       [] status = \Hfb -> "Continue"
       [] status = \Hfc -> "Stop"
       [] status = \Hfe -> "ActiveSensing"
       [] status = \Hff -> "Reset"
       [] OTHER -> Panic

----------------------------------------------------------------------------
(* message/channel1.rs *)

\* LegacyChannelVoice::data
LegacyChannelVoice_data(m) ==
  LET bs == to_be_bytes(m.packet[1]) IN <<bs[2], bs[3], bs[4]>>

\* LegacyChannelVoice::channel
LegacyChannelVoice_channel(m) == BitAnd(LegacyChannelVoice_data(m)[1], \H0f, 8)

\* LegacyChannelVoice::note_number
LegacyChannelVoice_note_number(m) == LegacyChannelVoice_data(m)[2]

\* LegacyChannelVoice::velocity
LegacyChannelVoice_velocity(m) == LegacyChannelVoice_data(m)[3]

\* LegacyChannelVoice::cc_index
LegacyChannelVoice_cc_index(m) == LegacyChannelVoice_data(m)[2]

\* LegacyChannelVoice::cc_value
LegacyChannelVoice_cc_value(m) == LegacyChannelVoice_data(m)[3]

\* LegacyChannelVoice::program_change_value
LegacyChannelVoice_program_change_value(m) == LegacyChannelVoice_data(m)[2]

\* pitch_bend_value with the most significant byte shifted by 8
LegacyChannelVoice_pitch_bend_value_shl8(m) ==
  LET msb == Shl16(LegacyChannelVoice_data(m)[2], 8)
      lsb == LegacyChannelVoice_data(m)[3]
  IN BitOr(msb, lsb, 16)

\* LegacyChannelVoice::pitch_bend_value
LegacyChannelVoice_pitch_bend_value(m) ==
  LET msb == Shl16(LegacyChannelVoice_data(m)[2], 7)
      lsb == LegacyChannelVoice_data(m)[3]
  IN BitOr(msb, lsb, 16)

\* LegacyChannelVoice::poly_pressure_note
LegacyChannelVoice_poly_pressure_note(m) == LegacyChannelVoice_data(m)[2]

\* LegacyChannelVoice::poly_pressure_value
LegacyChannelVoice_poly_pressure_value(m) == LegacyChannelVoice_data(m)[3]

\* LegacyChannelVoice::channel_pressure_value
LegacyChannelVoice_channel_pressure_value(m) == LegacyChannelVoice_data(m)[2]

\* LegacyChannelVoice::message_type
LegacyChannelVoice_message_type(b, m) == Message_message_type(b, m, "LegacyChannelVoice")

\* LegacyChannelVoice::status
LegacyChannelVoice_status(m) ==
  LET stat == Packet_status(m.packet) \div 16
  IN CASE stat = \H8 -> "NoteOn"
       [] stat = \H9 -> "NoteOff"
       [] stat = \Ha -> "PolyPressure"
       [] stat = \Hb -> "ControlChange"
       [] stat = \Hc -> "ProgramChange"
       [] stat = \Hd -> "ChannelPressure"
       [] stat = \He -> "PitchBend"
       [] OTHER -> Panic

\* LegacyChannelVoice::with_channel
LegacyChannelVoice_with_channel(b, m, channel) ==
  IF b = "debug" /\ ~(channel < 16) THEN PanicMsg
  ELSE LET ch == Shl32(U8asU32(channel), 24)
       IN Msg(m.cat,
              [m.packet EXCEPT ![1] =
                 Or32(And32(m.packet[1], Lit(\Hff, \Hf0, \H00, \H00)), ch)])

\* LegacyChannelVoice::note_off
LegacyChannelVoice_note_off(b, note, velocity) ==
  IF b = "debug" /\ ~(note < 128 /\ velocity < 128) THEN PanicMsg
  ELSE Msg("LegacyChannelVoice",
           <<Or32(Or32(Lit(\H20, \H80, \H00, \H00), Shl32(U8asU32(note), 8)),
                  U8asU32(velocity))>>)

\* LegacyChannelVoice::note_on
LegacyChannelVoice_note_on(b, note, velocity) ==
  IF b = "debug" /\ ~(note < 128 /\ velocity < 128) THEN PanicMsg
  ELSE Msg("LegacyChannelVoice",
           <<Or32(Or32(Lit(\H20, \H90, \H00, \H00), Shl32(U8asU32(note), 8)),
                  U8asU32(velocity))>>)

\* LegacyChannelVoice::poly_pressure
LegacyChannelVoice_poly_pressure(b, note, pressure) ==
  IF b = "debug" /\ ~(note < 128 /\ pressure < 128) THEN PanicMsg
  ELSE Msg("LegacyChannelVoice",
           <<Or32(Or32(Lit(\H20, \Ha0, \H00, \H00), Shl32(U8asU32(note), 8)),
                  U8asU32(pressure))>>)

\* LegacyChannelVoice::control_change
LegacyChannelVoice_control_change(b, index, value) ==
  IF b = "debug" /\ ~(index < 128 /\ value < 128) THEN PanicMsg
  ELSE Msg("LegacyChannelVoice",
           <<Or32(Or32(Lit(\H20, \Hb0, \H00, \H00), Shl32(U8asU32(index), 8)),
                  U8asU32(value))>>)

\* LegacyChannelVoice::program_change
LegacyChannelVoice_program_change(b, note, velocity) ==
  IF b = "debug" /\ ~(note < 128 /\ velocity < 128) THEN PanicMsg
  ELSE Msg("LegacyChannelVoice",
           <<Or32(Or32(Lit(\H20, \Hc0, \H00, \H00), Shl32(U8asU32(note), 8)),
                  U8asU32(velocity))>>)

\* LegacyChannelVoice::channel_pressure
LegacyChannelVoice_channel_pressure(b, value) ==
  IF b = "debug" /\ ~(value < 128) THEN PanicMsg
  ELSE Msg("LegacyChannelVoice",
           <<Or32(Lit(\H20, \Hd0, \H00, \H00), Shl32(U8asU32(value), 8))>>)

\* LegacyChannelVoice::pitch_bend
LegacyChannelVoice_pitch_bend(b, value) ==
  IF b = "debug" /\ ~(value < Pow2(14)) THEN PanicMsg
  ELSE LET v == from_be_bytes(<<0, 0, Shr16(value, 7) % 256,
                                Shr16(Shl16(value, 7), 7) % 256>>)
       IN Msg("LegacyChannelVoice", <<Or32(Lit(\H20, \He0, \H00, \H00), v)>>)

----------------------------------------------------------------------------
(* message/channel2.rs *)

\* ChannelVoice::data
ChannelVoice_data(h, m) ==
  LET word1 == to_ne_bytes(h, m.packet[1])
      word2 == m.packet[2]
  IN <<word1[3], word1[4], word2>>

\* ChannelVoice::channel
ChannelVoice_channel(m) ==
  U32asU8(And32(Shr32(m.packet[1], 16), Lit(\H00, \H00, \H00, \H0f)))

\* ChannelVoice::note_number
ChannelVoice_note_number(h, m) == ChannelVoice_data(h, m)[1]

\* ChannelVoice::velocity
ChannelVoice_velocity(h, m) == U32asU16(Shr32(ChannelVoice_data(h, m)[3], 16))

\* ChannelVoice::attribute_data
ChannelVoice_attribute_data(h, m) ==
  U32asU16(And32(ChannelVoice_data(h, m)[3], Lit(\H00, \H00, \Hff, \Hff)))

\* ChannelVoice::poly_pressure_value
ChannelVoice_poly_pressure_value(h, m) == ChannelVoice_data(h, m)[3]

\* ChannelVoice::cc_index
ChannelVoice_cc_index(h, m) == ChannelVoice_data(h, m)[1]

\* ChannelVoice::cc_value
ChannelVoice_cc_value(h, m) == ChannelVoice_data(h, m)[3]

\* ChannelVoice::pitch_bend_value
ChannelVoice_pitch_bend_value(h, m) == ChannelVoice_data(h, m)[3]

\* ChannelVoice::message_type
ChannelVoice_message_type(b, m) == Message_message_type(b, m, "ChannelVoice")

\* ChannelVoice::status
ChannelVoice_status(m) ==
  LET stat == U32asU8(And32(Shr32(m.packet[1], 20), Lit(\H00, \H00, \H00, \H0f)))
  IN CASE stat = \H8 -> "NoteOff"
       [] stat = \H9 -> "NoteOn"
       [] stat = \Ha -> "PolyPressure"
       [] stat = \H0 -> "RpnMgmt"
       [] stat = \H1 -> "ArpnMgmt"
       [] stat = \Hf -> "PerNoteMgmt"
       [] stat = \Hb -> "ControlChange"
       [] stat = \H2 -> "RpnControlChange"
       [] stat = \H3 -> "ArpnControlChange"
       [] stat = \H4 -> "RpnRelativeControlChange"
       [] stat = \H5 -> "ArpnRelativeControlChange"
       [] stat = \Hc -> "ProgramChange"
       [] stat = \Hd -> "ChannelPressure"
       [] stat = \He -> "PitchBend"
       [] stat = \H6 -> "PerNotePitchBend"
       [] OTHER -> Panic

\* ChannelVoice::with_channel
ChannelVoice_with_channel(b, m, channel) ==
  IF b = "debug" /\ ~(channel < 16) THEN PanicMsg
  ELSE LET ch == Shl32(U8asU32(channel), 24)
       IN Msg(m.cat,
              [m.packet EXCEPT ![1] =
                 Or32(And32(m.packet[1], Lit(\Hff, \Hf0, \H00, \H00)), ch)])

\* the (attr_type, attr_data) pair of an Option<Attribute>
AttrPair(attribute) ==
  CASE attribute.kind = "None" -> <<U8asU32(0), U8asU32(0)>>
    [] attribute.kind = "Manufacturer" -> <<U8asU32(1), U16asU32(attribute.data)>>
    [] attribute.kind = "Profile" -> <<U8asU32(2), U16asU32(attribute.data)>>
    [] attribute.kind = "Pitch79" -> <<U8asU32(3), U16asU32(attribute.data)>>

\* ChannelVoice::note_off
ChannelVoice_note_off(b, note, velocity, attribute) ==
  IF b = "debug" /\ ~(note < 128) THEN PanicMsg
  ELSE LET attr == AttrPair(attribute)
           vel == Shl32(U16asU32(velocity), 16)
           note_number == Shl32(U8asU32(note), 8)
       IN Msg("ChannelVoice",
              <<Or32(Or32(Lit(\H40, \H90, \H00, \H00), note_number), attr[1]),
                Or32(vel, attr[2])>>)

\* ChannelVoice::note_on
ChannelVoice_note_on(b, note, velocity, attribute) ==
  IF b = "debug" /\ ~(note < 128) THEN PanicMsg
  ELSE LET attr == AttrPair(attribute)
           vel == Shl32(U16asU32(velocity), 16)
           note_number == Shl32(U8asU32(note), 8)
       IN Msg("ChannelVoice",
              <<Or32(Or32(Lit(\H40, \Ha0, \H00, \H00), note_number), attr[1]),
                Or32(vel, attr[2])>>)

\* ChannelVoice::poly_pressure
ChannelVoice_poly_pressure(b, note, pressure) ==
  IF b = "debug" /\ ~(note < 128) THEN PanicMsg
  ELSE LET note_number == Shl32(U8asU32(note), 8)
       IN Msg("ChannelVoice",
              <<Or32(Lit(\H40, \Hb0, \H00, \H00), note_number), pressure>>)

\* ChannelVoice::control_change
ChannelVoice_control_change(b, index, value) ==
  IF b = "debug" /\ ~(index < 128 /\ Lt32(value, 128)) THEN PanicMsg
  ELSE Msg("ChannelVoice",
           <<Or32(Lit(\H20, \Hb0, \H00, \H00), Shl32(U8asU32(index), 8)), value>>)

\* program_change with the program shifted into the second byte of word 1
ChannelVoice_program_change_shl16(options, program, bank) ==
  LET bank_msb == bank \div 256
      bank_lsb == bank % 256
  IN Msg("ChannelVoice",
         <<Or32(Lit(\H20, \Hc0, \H00, \H00), U8asU32(options)),
           Or32(Or32(Shl32(U8asU32(program), 16), Shl32(U8asU32(bank_msb), 8)),
                U8asU32(bank_lsb))>>)

\* ChannelVoice::program_change
ChannelVoice_program_change(options, program, bank) ==
  LET bank_msb == bank \div 256
      bank_lsb == bank % 256
  IN Msg("ChannelVoice",
         <<Or32(Lit(\H20, \Hc0, \H00, \H00), U8asU32(options)),
           Or32(Or32(Shl32(U8asU32(program), 24), Shl32(U8asU32(bank_msb), 8)),
                U8asU32(bank_lsb))>>)

\* ChannelVoice::channel_pressure
ChannelVoice_channel_pressure(value) ==
  Msg("ChannelVoice", <<Lit(\H20, \Hd0, \H00, \H00), value>>)

\* ChannelVoice::pitch_bend
ChannelVoice_pitch_bend(value) ==
  LET v == from_be_bytes(<<0, 0, U32asU8(Shr32(value, 7)),
                           U32asU8(Shr32(Shl32(value, 7), 7))>>)
  IN Msg("ChannelVoice", <<Lit(\H20, \He0, \H00, \H00), v>>)

\* ChannelVoice::per_note_pitch_bend
ChannelVoice_per_note_pitch_bend(note_number, value) ==
  LET v == from_be_bytes(<<0, 0, U32asU8(Shr32(value, 7)),
                           U32asU8(Shr32(Shl32(value, 7), 7))>>)
  IN Msg("ChannelVoice",
         <<Or32(Lit(\H20, \He0, \H00, \H00), Shl32(U8asU32(note_number), 8)), v>>)

----------------------------------------------------------------------------
(* message/channel1.rs: impl From<LegacyChannelVoice> for ChannelVoice *)

\* a velocity scaled by one bit too many
convert_velocity_shl9(v) == Shl16(v, 9)

\* fn convert_velocity
convert_velocity(v) == Shl16(v, 8)

\* a pressure scaled by one bit too many
convert_pressure_shl25(v) == Shl32(U8asU32(v), 25)

\* fn convert_pressure
convert_pressure(v) == Shl32(U8asU32(v), 24)

\* fn convert_pitch_bend
convert_pitch_bend(v) == Shl32(U16asU32(v), 14)

\* Option::<Attribute>::None
NoAttribute == [kind |-> "None", data |-> 0]

\* impl From<LegacyChannelVoice> for ChannelVoice
ChannelVoice_from(b, value) ==
  LET status == LegacyChannelVoice_status(value)
      message ==
        CASE status = "NoteOff" ->
               ChannelVoice_note_off(b, LegacyChannelVoice_note_number(value),
                 convert_velocity(LegacyChannelVoice_velocity(value)), NoAttribute)
          [] status = "NoteOn" ->
               ChannelVoice_note_on(b, LegacyChannelVoice_note_number(value),
                 convert_velocity(LegacyChannelVoice_velocity(value)), NoAttribute)
          [] status = "PolyPressure" ->
               ChannelVoice_poly_pressure(b, LegacyChannelVoice_poly_pressure_note(value),
                 convert_pressure(LegacyChannelVoice_poly_pressure_value(value)))
          [] status = "ControlChange" ->
               ChannelVoice_control_change(b, LegacyChannelVoice_cc_index(value),
                 convert_pressure(LegacyChannelVoice_cc_value(value)))
          [] status = "ChannelPressure" ->
               ChannelVoice_channel_pressure(
                 convert_pressure(LegacyChannelVoice_channel_pressure_value(value)))
          [] status = "PitchBend" ->
               ChannelVoice_pitch_bend(
                 convert_pitch_bend(LegacyChannelVoice_pitch_bend_value(value)))
          [] status = "ProgramChange" ->
               ChannelVoice_program_change(0,
                 LegacyChannelVoice_program_change_value(value), 0)
          [] OTHER -> PanicMsg
  IN IF message = PanicMsg THEN PanicMsg
     ELSE ChannelVoice_with_channel(b, message, LegacyChannelVoice_channel(value))

----------------------------------------------------------------------------
(* message/voice.rs *)

\* ChannelVoice::status of voice.rs
Voice_status(m) ==
  LET stat == U32asU8(And32(Shr32(m.packet[1], 20), Lit(\H00, \H00, \H00, \H0f)))
  IN CASE stat = \H8 -> "NoteOff"
       [] stat = \H9 -> "NoteOn"
       [] stat = \Ha -> "PolyPressure"
       [] stat = \Hb -> "ControlChange"
       [] stat = \Hc -> "ProgramChange"
       [] stat = \Hd -> "ChannelPressure"
       [] stat = \He -> "PitchBend"
       [] stat = \H0 -> "RegisteredPerNoteCtl"
       [] stat = \H1 -> "AssignablePerNoteCtl"
       [] stat = \H2 -> "RegisteredCtl"
       [] stat = \H3 -> "AssignableCtl"
       [] stat = \H4 -> "RelRegisteredPerNoteCtl"
       [] stat = \H5 -> "RelAssignablePerNoteCtl"
       [] stat = \H6 -> "PerNotePitchBend"
       [] stat = \Hf -> "PerNoteManagement"
       [] OTHER -> Panic

\* ChannelVoice::data of voice.rs
Voice_data(h, m) ==
  LET word1 == to_ne_bytes(h, m.packet[1])
      word2 == m.packet[2]
  IN <<word1[3], word1[4], word2>>

\* u16::from_ne_bytes([a, b])
u16_from_ne_bytes(h, a, b) == IF h = "le" THEN b * 256 + a ELSE a * 256 + b

\* the struct ProgramChange: bank (None or Some), program, option_flags
ProgramChange(bank_some, bank, program, option_flags) ==
  [bank_some |-> bank_some, bank |-> bank, program |-> program,
   option_flags |-> option_flags]
\* no ProgramChange
NoProgramChange == ProgramChange(FALSE, 0, 0, -1)

\* ChannelVoice::program_change of voice.rs
Voice_program_change(h, m) ==
  LET data_bytes == to_ne_bytes(h, Voice_data(h, m)[3])
      should_select_bank == BitAnd(Voice_data(h, m)[2], 1, 8) = 1
  IN ProgramChange(should_select_bank,
                   IF should_select_bank
                   THEN u16_from_ne_bytes(h, data_bytes[2], data_bytes[3])
                   ELSE 0,
                   data_bytes[1],
                   Voice_data(h, m)[2] \div 2)

----------------------------------------------------------------------------
(* message/data.rs *)

\* Data64::message_type
Data64_message_type(b, m) == Message_message_type(b, m, "Data64")

\* Data64::status
Data64_status(m) ==
  LET stat == U32asU8(And32(Shr32(m.packet[1], 20), Lit(\H00, \H00, \H00, \H0f)))
  IN CASE stat = \H0 -> "SinglePacket"
       [] stat = \H1 -> "Start"
       [] stat = \H2 -> "Continue"
       [] stat = \H3 -> "End"
       [] OTHER -> Panic

\* Data128::message_type
Data128_message_type(b, m) == Message_message_type(b, m, "Data128")

\* Data128::status
Data128_status(m) ==
  LET stat == U32asU8(And32(Shr32(m.packet[1], 20), Lit(\H00, \H00, \H00, \H0f)))
  IN CASE stat = \H0 -> "SinglePacket"
       [] stat = \H1 -> "Start"
       [] stat = \H2 -> "Continue"
       [] stat = \H3 -> "End"
       [] stat = \H8 -> "MixedDataSetHeader"
       [] stat = \H9 -> "MixedDataSetPayload"
       [] OTHER -> Panic


----------------------------------------------------------------------------
(* message/flex.rs *)

\* impl From<u8> for FlexSetupAndPerformance
FlexSetupAndPerformance(b, value) ==
  IF b = "debug" /\ ~(value < 16) THEN Panic
  ELSE CASE value = \H00 -> "SetTempo"
         [] value = \H01 -> "SetTimeSignature"
         [] value = \H02 -> "SetMetronome"
         [] value = \H05 -> "SetKeySignature"
         [] value = \H06 -> "SetChordName"
         [] value >= \H07 /\ value <= \H0F -> "TextMessageCommonFormat"
         [] value = \H03 \/ value = \H04 -> "Undefined"
         [] OTHER -> Panic

\* impl From<u8> for FlexMetadataText
FlexMetadataText(b, value) ==
  IF b = "debug" /\ ~(value < 16) THEN Panic
  ELSE IF value <= \HC THEN "MetadataText" ELSE Panic

\* impl From<u8> for FlexPerformanceTextEvent
FlexPerformanceTextEvent(b, value) ==
  IF b = "debug" /\ ~(value < 16) THEN Panic
  ELSE IF value <= 4 THEN "PerformanceTextEvent" ELSE Panic

\* impl From<u16> for FlexStatus
FlexStatus(b, value) ==
  LET status == <<value \div 256, value % 256>>
  IN CASE status[1] = \H00 -> FlexSetupAndPerformance(b, status[2])
       [] status[1] = \H01 -> FlexMetadataText(b, status[2])
       [] status[1] = \H02 -> FlexPerformanceTextEvent(b, status[2])
       [] OTHER -> "Reserved"

\* Flex::message_type
Flex_message_type(b, m) == Message_message_type(b, m, "Flex")

\* Flex::status
Flex_status(b, m) ==
  LET dword == m.packet[1]
      word == U32asU16(And32(dword, Lit(\H00, \H00, \HFF, \HFF)))
  IN FlexStatus(b, word)

----------------------------------------------------------------------------
(* codec.rs *)

\* the result None of decode
DecNone == [some |-> FALSE, n |-> 0, data |-> NoMsg]
\* the result Some((n, data)) of decode
DecSome(n, data) == [some |-> TRUE, n |-> n, data |-> data]
\* decode reaching its unreachable!() arm
DecPanic == [some |-> FALSE, n |-> 0, data |-> PanicMsg]

Min(a, b) == IF a < b THEN a ELSE b

\* the number of chunks of buf.chunks_exact(size_of::<u32>())
chunks_exact_count(buf) == Len(buf) \div WordBytes

\* chunk k (1-based) of buf.chunks_exact(size_of::<u32>())
chunks_exact(buf, k) == SubSeq(buf, WordBytes * (k - 1) + 1, WordBytes * k)

\* encode writing every word most significant byte first
encode_be(h, message, buf) ==
  LET count == Min(Len(message.packet), chunks_exact_count(buf))
  IN [n |-> 4 * count,
      buf |-> [i \in 1..Len(buf) |->
                 IF i <= WordBytes * count
                 THEN to_be_bytes(message.packet[((i - 1) \div WordBytes) + 1])
                        [((i - 1) % WordBytes) + 1]
                 ELSE buf[i]]]

\* codec::encode: the returned count and the buffer afterwards
encode(h, message, buf) ==
  LET count == Min(Len(message.packet), chunks_exact_count(buf))
  IN [n |-> 4 * count,
      buf |-> [i \in 1..Len(buf) |->
                 IF i <= WordBytes * count
                 THEN to_ne_bytes(h, message.packet[((i - 1) \div WordBytes) + 1])
                        [((i - 1) % WordBytes) + 1]
                 ELSE buf[i]]]

\* the outer match with type 5 listed in the two-word arm
decode_arm_5_short(message_type) ==
  CASE message_type \in {\H0, \H1, \H2, \H6, \H7} -> [words |-> 1, bytes |-> 4]
    [] message_type \in {\H3, \H4, \H5, \H8, \H9, \Ha} -> [words |-> 2, bytes |-> 8]
    [] message_type \in {\Hb, \Hc} -> [words |-> 3, bytes |-> 12]
    [] message_type \in {\Hd, \He, \Hf} -> [words |-> 4, bytes |-> 16]
    [] OTHER -> [words |-> 0, bytes |-> 0]

\* the outer match with type 0xc listed in the four-word arm
decode_arm_c_long(message_type) ==
  CASE message_type \in {\H0, \H1, \H2, \H6, \H7} -> [words |-> 1, bytes |-> 4]
    [] message_type \in {\H3, \H4, \H8, \H9, \Ha} -> [words |-> 2, bytes |-> 8]
    [] message_type \in {\Hb} -> [words |-> 3, bytes |-> 12]
    [] message_type \in {\H5, \Hc, \Hd, \He, \Hf} -> [words |-> 4, bytes |-> 16]
    [] OTHER -> [words |-> 0, bytes |-> 0]

\* the outer match of decode: the words of the arm and the count it returns
decode_arm(message_type) ==
  CASE message_type \in {\H0, \H1, \H2, \H6, \H7} -> [words |-> 1, bytes |-> 4]
    [] message_type \in {\H3, \H4, \H8, \H9, \Ha} -> [words |-> 2, bytes |-> 8]
    [] message_type \in {\Hb, \Hc} -> [words |-> 3, bytes |-> 12]
    [] message_type \in {\H5, \Hd, \He, \Hf} -> [words |-> 4, bytes |-> 16]
    [] OTHER -> [words |-> 0, bytes |-> 0]

\* the inner matches of decode: the variant of Data that wraps the packet
decode_variant(message_type) ==
  CASE message_type = \H0 -> "Utility"
    [] message_type = \H1 -> "System"
    [] message_type = \H2 -> "LegacyChannelVoice"
    [] message_type \in {\H6, \H7} -> "Reserved32"
    [] message_type = \H3 -> "Data64"
    [] message_type = \H4 -> "ChannelVoice"
    [] message_type \in {\H8, \H9, \Ha} -> "Reserved64"
    [] message_type \in {\Hb, \Hc} -> "Reserved96"
    [] message_type = \H5 -> "Data128"
    [] message_type = \Hd -> "Flex"
    [] message_type = \Hf -> "UmpStream"
    [] message_type = \He -> "Reserved128"

\* codec::decode
decode(h, buf) ==
  IF chunks_exact_count(buf) < 1 THEN DecNone
  ELSE LET word0 == from_ne_bytes(h, chunks_exact(buf, 1))
           message_type == U32asU8(Shr32(word0, 28))
           arm == decode_arm(message_type)
       IN IF arm.words = 0 THEN DecPanic
          ELSE IF chunks_exact_count(buf) < arm.words THEN DecNone
          ELSE DecSome(arm.bytes,
                       Msg(decode_variant(message_type),
                           [k \in 1..arm.words |->
                              from_ne_bytes(h, chunks_exact(buf, k))]))

\* status() of the category of m
status_of(b, m) ==
  CASE m.cat = "Utility" -> Utility_status(m)
    [] m.cat = "System" -> System_status(m)
    [] m.cat = "LegacyChannelVoice" -> LegacyChannelVoice_status(m)
    [] m.cat = "ChannelVoice" -> ChannelVoice_status(m)
    [] m.cat = "Data64" -> Data64_status(m)
    [] m.cat = "Data128" -> Data128_status(m)
    [] m.cat = "Flex" -> Flex_status(b, m)

\* message_type() of the category of m
message_type_of(b, m) ==
  CASE m.cat = "Utility" -> Utility_message_type(b, m)
    [] m.cat = "System" -> System_message_type(b, m)
    [] m.cat = "LegacyChannelVoice" -> LegacyChannelVoice_message_type(b, m)
    [] m.cat = "ChannelVoice" -> ChannelVoice_message_type(b, m)
    [] m.cat = "Data64" -> Data64_message_type(b, m)
    [] m.cat = "Data128" -> Data128_message_type(b, m)
    [] m.cat = "Flex" -> Flex_message_type(b, m)

\* with_channel of the category of m
with_channel(b, m, channel) ==
  IF m.cat = "LegacyChannelVoice"
  THEN LegacyChannelVoice_with_channel(b, m, channel)
  ELSE ChannelVoice_with_channel(b, m, channel)

\* the categories that classify their status
StatusCats ==
  {"Utility", "System", "LegacyChannelVoice", "ChannelVoice", "Data64",
   "Data128", "Flex"}

\* the categories that have a channel
ChannelCats == {"LegacyChannelVoice", "ChannelVoice"}

----------------------------------------------------------------------------
(* ump.rs: the byte stream reader and the conversion to MidiMessage *)

\* a UMP value: UMP::U32(bytes), UMP::U64(bytes), UMP::U96(bytes), UMP::U128(bytes)
UMP(kind, bytes) == [kind |-> kind, bytes |-> bytes]
\* no UMP
NoUMP == [kind |-> "none", bytes |-> <<>>]

\* the match of stream_from_bytes with type 3 listed in the one-word arm
ump_arm_3_short(nibble) ==
  CASE nibble \in {\H0, \H1, \H2, \H3, \H6, \H7} -> [kind |-> "U32", len |-> 4]
    [] nibble \in {\H4, \H8, \H9, \HA} -> [kind |-> "U64", len |-> 8]
    [] nibble \in {\HB, \HC} -> [kind |-> "U96", len |-> 12]
    [] nibble \in {\H5, \HD, \HE, \HF} -> [kind |-> "U128", len |-> 16]
    [] OTHER -> [kind |-> "none", len |-> 0]

\* the match on msb >> 4 in stream_from_bytes: the variant and the size of
\* its buffer
ump_arm(nibble) ==
  CASE nibble \in {\H0, \H1, \H2, \H6, \H7} -> [kind |-> "U32", len |-> 4]
    [] nibble \in {\H3, \H4, \H8, \H9, \HA} -> [kind |-> "U64", len |-> 8]
    [] nibble \in {\HB, \HC} -> [kind |-> "U96", len |-> 12]
    [] nibble \in {\H5, \HD, \HE, \HF} -> [kind |-> "U128", len |-> 16]
    [] OTHER -> [kind |-> "none", len |-> 0]

\* a reader that yields a truncated packet with its missing bytes left zero
stream_next_padded(bytes) ==
  IF bytes = <<>> THEN [some |-> FALSE, item |-> NoUMP, rest |-> <<>>]
  ELSE LET msb == Head(bytes)
           arm == ump_arm(msb \div 16)
       IN IF arm.len = 0
          THEN [some |-> FALSE, item |-> NoUMP, rest |-> Tail(bytes)]
          ELSE IF Len(bytes) < arm.len
          THEN [some |-> TRUE,
                item |-> UMP(arm.kind,
                             [i \in 1..arm.len |->
                                IF i <= Len(bytes) THEN bytes[i] ELSE 0]),
                rest |-> <<>>]
          ELSE [some |-> TRUE,
                item |-> UMP(arm.kind, SubSeq(bytes, 1, arm.len)),
                rest |-> SubSeq(bytes, arm.len + 1, Len(bytes))]

\* one call of the closure of UMP::stream_from_bytes on the bytes the
\* source still holds: the item it returns (if any) and the bytes left
stream_next(bytes) ==
  IF bytes = <<>> THEN [some |-> FALSE, item |-> NoUMP, rest |-> <<>>]
  ELSE LET msb == Head(bytes)
           arm == ump_arm(msb \div 16)
       IN IF arm.len = 0
          THEN [some |-> FALSE, item |-> NoUMP, rest |-> Tail(bytes)]
          ELSE IF Len(bytes) < arm.len
          THEN [some |-> FALSE, item |-> NoUMP, rest |-> <<>>]
          ELSE [some |-> TRUE,
                item |-> UMP(arm.kind, SubSeq(bytes, 1, arm.len)),
                rest |-> SubSeq(bytes, arm.len + 1, Len(bytes))]

\* a MidiMessage: the group and the data variant with its fields in
\* declaration order, every multi-byte field most significant byte first
MidiMessage(group, kind, variant, args) ==
  [group |-> group, kind |-> kind, variant |-> variant, args |-> args]
\* a conversion that panicked
MidiPanic == [group |-> 0, kind |-> Panic, variant |-> "", args |-> <<>>]
\* no conversion
NoMidi == [group |-> 0, kind |-> "none", variant |-> "", args |-> <<>>]

\* u16::from_le_bytes([a, b])
u16_from_le_bytes(a, b) == b * 256 + a
\* u16::from_be_bytes([a, b])
u16_from_be_bytes(a, b) == a * 256 + b
\* u32::from_le_bytes([a, b, c, d]), most significant byte first
u32_from_le_bytes(a, b, c, d) == <<d, c, b, a>>

\* fn undefined
undefined(group, ump) == MidiMessage(group, "Undefined", ump.kind, ump.bytes)

\* fn utility (bytes[k] of the source is bytes[k + 1] here)
utility(bytes) ==
  LET group == BitAnd(bytes[1], \H0f, 8)
      status == bytes[2] \div 16
  IN CASE status = 0 -> MidiMessage(group, "Utility", "NoOp", <<>>)
       [] status = 1 ->
            MidiMessage(group, "Utility", "JrClock",
                        <<u16_from_le_bytes(bytes[3], bytes[4])>>)
       [] status = 2 ->
            MidiMessage(group, "Utility", "JrTimestamp",
                        <<u16_from_le_bytes(bytes[3], bytes[4])>>)
       [] OTHER -> MidiPanic

\* fn system
system(bytes) ==
  LET group == BitAnd(bytes[1], \H0f, 8)
      status == bytes[2]
  IN CASE status \in {\Hf0, \Hf4, \Hf5, \Hf7, \Hf9, \Hfd} ->
            MidiMessage(group, "Undefined", "U32", bytes)
       [] status = \Hf1 -> MidiMessage(group, "SystemCommon", "TimeCode", <<bytes[3]>>)
       [] status = \Hf2 ->
            MidiMessage(group, "SystemCommon", "SongPositionPointer",
                        <<BitOr((bytes[4] * 128) % 65536, bytes[3], 16)>>)
       [] status = \Hf3 -> MidiMessage(group, "SystemCommon", "SongSelect", <<bytes[3]>>)
       [] status = \Hf6 -> MidiMessage(group, "SystemCommon", "TuneRequest", <<>>)
       [] status = \Hf8 -> MidiMessage(group, "SystemRealtime", "TimingClock", <<>>)
       [] status = \Hfa -> MidiMessage(group, "SystemRealtime", "Start", <<>>)
       [] status = \Hfb -> MidiMessage(group, "SystemRealtime", "Continue", <<>>)
       [] status = \Hfc -> MidiMessage(group, "SystemRealtime", "Stop", <<>>)
       [] status = \Hfe -> MidiMessage(group, "SystemRealtime", "ActiveSensing", <<>>)
       [] status = \Hff -> MidiMessage(group, "SystemRealtime", "Reset", <<>>)
       [] OTHER -> MidiPanic

\* fn channel_voice1
channel_voice1(bytes) ==
  LET group == BitAnd(bytes[1], \H0f, 8)
      channel == BitAnd(bytes[2], \H0f, 8)
      status == bytes[2] \div 16
      LCV(variant, args) == MidiMessage(group, "LegacyChannelVoice", variant, args)
  IN CASE status = 8 -> LCV("NoteOff", <<channel, bytes[3], bytes[4]>>)
       [] status = 9 -> LCV("NoteOn", <<channel, bytes[3], bytes[4]>>)
       [] status = 10 -> LCV("PolyPressure", <<channel, bytes[3], bytes[4]>>)
       [] status = 11 -> LCV("ControlChange", <<channel, bytes[3], bytes[4]>>)
       [] status = 12 -> LCV("ProgramChange", <<channel, bytes[3], bytes[4]>>)
       [] status = 13 -> LCV("ChannelPressure", <<channel, bytes[3], bytes[4]>>)
       [] status = 14 ->
            LCV("PitchBend", <<channel, u16_from_le_bytes(bytes[3], bytes[4])>>)
       [] OTHER -> MidiPanic

\* fn channel_voice2
channel_voice2(bytes) ==
  LET group == BitAnd(bytes[1], \H0f, 8)
      channel == BitAnd(bytes[2], \H0f, 8)
      status == bytes[2] \div 16
      data == u32_from_le_bytes(bytes[5], bytes[6], bytes[7], bytes[8])
      CV(variant, args) == MidiMessage(group, "ChannelVoice", variant, args)
  IN CASE status = 8 ->
            \* channel, note, attr, vel, attr_val
            CV("NoteOff", <<channel, bytes[3], bytes[4],
                            u16_from_le_bytes(bytes[5], bytes[6]),
                            u16_from_le_bytes(bytes[7], bytes[8])>>)
       [] status = 9 ->
            CV("NoteOn", <<channel, bytes[3], bytes[4],
                           u16_from_le_bytes(bytes[5], bytes[6]),
                           u16_from_le_bytes(bytes[7], bytes[8])>>)
       [] status = 10 -> CV("PolyPressure", <<channel, bytes[3]>> \o data)
       [] status = 0 -> CV("RegPerNoteCtrl", <<channel, bytes[3], bytes[4]>> \o data)
       [] status = 1 -> CV("AsgnPerNoteCtrl", <<channel, bytes[3], bytes[4]>> \o data)
       [] status = 15 -> CV("PerNoteMngmt", <<channel, bytes[3], bytes[4]>>)
       [] status = 11 -> CV("ControlChange", <<channel, bytes[3]>> \o data)
       [] status = 2 -> CV("RegsteredCtrl", <<channel, bytes[3], bytes[4]>> \o data)
       [] status = 3 -> CV("AssignableCtrl", <<channel, bytes[3], bytes[4]>> \o data)
       [] status = 4 -> CV("RelRegCtrl", <<channel, bytes[3], bytes[4]>> \o data)
       [] status = 5 -> CV("RelAssnCtrl", <<channel, bytes[3], bytes[4]>> \o data)
       [] status = 12 ->
            \* channel, options, program, bank
            CV("ProgramChange", <<channel, bytes[4], bytes[5],
                                  u16_from_be_bytes(bytes[7], bytes[8])>>)
       [] status = 13 -> CV("ChannelPressure", <<channel>> \o data)
       [] status = 14 -> CV("PitchBend", <<channel>> \o data)
       [] status = 6 -> CV("PerNotePitchBnd", <<channel, bytes[3]>> \o data)
       [] OTHER -> MidiPanic

\* fn data64
data64(bytes) ==
  LET group == BitAnd(bytes[1], \H0f, 8)
      status == bytes[2] \div 16
  IN CASE status = 0 -> MidiMessage(group, "Data64", "SinglePacket", bytes)
       [] status = 1 -> MidiMessage(group, "Data64", "Start", bytes)
       [] status = 2 -> MidiMessage(group, "Data64", "Continue", bytes)
       [] status = 3 -> MidiMessage(group, "Data64", "End", bytes)
       [] OTHER -> MidiPanic

\* fn data128
data128(bytes) ==
  LET group == BitAnd(bytes[1], \H0f, 8)
      status == bytes[2] \div 16
  IN CASE status = 0 -> MidiMessage(group, "Data128", "SinglePacket", bytes)
       [] status = 1 -> MidiMessage(group, "Data128", "Start", bytes)
       [] status = 2 -> MidiMessage(group, "Data128", "Continue", bytes)
       [] status = 3 -> MidiMessage(group, "Data128", "End", bytes)
       [] status = 4 -> MidiMessage(group, "Data128", "MixedDataSetHeader", bytes)
       [] status = 5 -> MidiMessage(group, "Data128", "MixedDataSetPayload", bytes)
       [] OTHER -> MidiPanic

\* impl From<UMP> for MidiMessage
MidiMessage_from(ump) ==
  LET bytes == ump.bytes
      nibble == bytes[1] \div 16
  IN CASE ump.kind = "U32" ->
            (CASE nibble = 0 -> utility(bytes)
               [] nibble = 1 -> system(bytes)
               [] nibble = 2 -> channel_voice1(bytes)
               [] OTHER -> undefined(BitAnd(bytes[1], \H0f, 8), ump))
       [] ump.kind = "U64" ->
            (CASE nibble = 3 -> data64(bytes)
               [] nibble = 4 -> channel_voice2(bytes)
               [] OTHER -> undefined(BitAnd(bytes[1], \H0f, 8), ump))
       [] ump.kind = "U96" -> undefined(BitAnd(bytes[1], \H0f, 8), ump)
       [] ump.kind = "U128" ->
            (CASE nibble = 5 -> data128(bytes)
               [] OTHER -> undefined(BitAnd(bytes[1], \H0f, 8), ump))

\* u16::to_le_bytes
u16_to_le_bytes(x) == <<x % 256, x \div 256>>
\* u16::to_be_bytes
u16_to_be_bytes(x) == <<x \div 256, x % 256>>
\* u32::to_le_bytes of a word kept most significant byte first
u32_to_le_bytes(w) == <<w[4], w[3], w[2], w[1]>>

\* the debug_assert! of MidiMessage::group fails
MidiMessage_group_panics(b, msg) == b = "debug" /\ ~(msg.group < 16)
\* MidiMessage::group where it returns
MidiMessage_group(msg) == BitAnd(msg.group, \H0f, 8)

\* the SystemCommon arms of UMP::from
UMP_from_system_common(group, variant, args) ==
  CASE variant = "TimeCode" ->
         UMP("U32", <<BitOr(\H10, group, 8), \Hf1, args[1], 0>>)
    [] variant = "SongPositionPointer" ->
         LET bytes == u16_to_be_bytes(args[1])
         IN UMP("U32", <<BitOr(\H10, group, 8), \Hf2, bytes[1], bytes[2]>>)
    [] variant = "SongSelect" ->
         UMP("U32", <<BitOr(\H10, group, 8), \Hf3, args[1], 0>>)
    [] variant = "TuneRequest" ->
         UMP("U32", <<BitOr(\H10, group, 8), \Hf6, 0, 0>>)

\* the SystemRealtime arm of UMP::from
UMP_from_system_realtime(group, variant) ==
  LET status == CASE variant = "Start" -> \Hfa
                  [] variant = "Continue" -> \Hfc
                  [] variant = "Stop" -> \Hfc
                  [] variant = "TimingClock" -> \Hf8
                  [] variant = "ActiveSensing" -> \Hfe
                  [] variant = "Reset" -> \Hff
  IN UMP("U32", <<BitOr(\H10, group, 8), status, 0, 0>>)

\* the LegacyChannelVoice arms of UMP::from; args are the fields in
\* declaration order, the channel first
UMP_from_legacy(group, variant, args) ==
  LET channel == args[1]
      head == BitOr(\H20, group, 8)
  IN CASE variant = "NoteOff" ->
            UMP("U32", <<head, BitOr(\H80, channel, 8), args[2], args[3]>>)
       [] variant = "NoteOn" ->
            UMP("U32", <<head, BitOr(\H90, channel, 8), args[2], args[3]>>)
       [] variant = "PolyPressure" ->
            UMP("U32", <<head, BitOr(\Ha0, channel, 8), args[2], args[3]>>)
       [] variant = "ControlChange" ->
            UMP("U32", <<head, BitOr(\Hb0, channel, 8), args[2], args[3]>>)
       [] variant = "ProgramChange" ->
            UMP("U32", <<head, BitOr(\Hc0, channel, 8), args[2], args[3]>>)
       [] variant = "ChannelPressure" ->
            UMP("U32", <<head, BitOr(\Hd0, channel, 8), args[2], args[3]>>)
       [] variant = "PitchBend" ->
            LET bytes == u16_to_le_bytes(args[2])
            IN UMP("U32", <<head, BitOr(\He0, channel, 8), bytes[1], bytes[2]>>)

\* the Utility arms with the clock written most significant byte first
UMP_from_utility_be(group, variant, args) ==
  CASE variant = "NoOp" -> UMP("U32", <<group, 0, 0, 0>>)
    [] variant = "JrClock" ->
         LET bytes == u16_to_be_bytes(args[1])
         IN UMP("U32", <<group, \H10, bytes[1], bytes[2]>>)
    [] variant = "JrTimestamp" ->
         LET bytes == u16_to_le_bytes(args[1])
         IN UMP("U32", <<group, \H20, bytes[1], bytes[2]>>)

\* the Utility arms of UMP::from
UMP_from_utility(group, variant, args) ==
  CASE variant = "NoOp" -> UMP("U32", <<group, 0, 0, 0>>)
    [] variant = "JrClock" ->
         LET bytes == u16_to_le_bytes(args[1])
         IN UMP("U32", <<group, \H10, bytes[1], bytes[2]>>)
    [] variant = "JrTimestamp" ->
         LET bytes == u16_to_le_bytes(args[1])
         IN UMP("U32", <<group, \H20, bytes[1], bytes[2]>>)

\* the ChannelVoice arms of UMP::from; args are the fields in declaration
\* order, the channel first, a u32 as its four bytes
UMP_from_channel_voice(group, variant, args) ==
  LET channel == args[1]
      head == BitOr(\H40, group, 8)
      \* a variant of two u8 fields and a u32
      Ctrl(status) ==
        LET bytes == u32_to_le_bytes(SubSeq(args, 4, 7))
        IN UMP("U64", <<head, BitOr(status, channel, 8), args[2], args[3]>>
                      \o bytes)
      \* a variant of a u32 alone
      Wide(status) ==
        LET bytes == u32_to_le_bytes(SubSeq(args, 2, 5))
        IN UMP("U64", <<head, BitOr(status, channel, 8), 0, 0>> \o bytes)
      \* a variant of a note and a u32
      PerNote(status) ==
        LET bytes == u32_to_le_bytes(SubSeq(args, 3, 6))
        IN UMP("U64", <<head, BitOr(status, channel, 8), args[2], 0>>
                      \o bytes)
      \* channel, note, attr, vel, attr_val
      Note(status) ==
        LET vel_bytes == u16_to_le_bytes(args[4])
            attr_val_bytes == u16_to_le_bytes(args[5])
        IN UMP("U64", <<head, BitOr(status, channel, 8), args[2],
                        vel_bytes[1], vel_bytes[2], args[3],
                        attr_val_bytes[1], attr_val_bytes[2]>>)
  IN CASE variant = "NoteOff" -> Note(\H80)
       [] variant = "NoteOn" -> Note(\H90)
       [] variant = "PolyPressure" -> PerNote(\Ha0)
       [] variant = "RegPerNoteCtrl" -> Ctrl(\H00)
       [] variant = "AsgnPerNoteCtrl" -> Ctrl(\H10)
       [] variant = "PerNoteMngmt" ->
            UMP("U64", <<head, BitOr(\Hf0, channel, 8), args[2], args[3],
                         0, 0, 0, 0>>)
       [] variant = "ControlChange" -> PerNote(\Hc0)
       [] variant = "RegsteredCtrl" -> Ctrl(\H20)
       [] variant = "AssignableCtrl" -> Ctrl(\H30)
       [] variant = "RelRegCtrl" -> Ctrl(\H40)
       [] variant = "RelAssnCtrl" -> Ctrl(\H50)
       [] variant = "ProgramChange" ->
            \* channel, options, program, bank
            LET bytes == u16_to_le_bytes(args[4])
            IN UMP("U64", <<head, BitOr(\H90, channel, 8), 0, args[2],
                            args[3], 0, bytes[1], bytes[2]>>)
       [] variant = "ChannelPressure" -> Wide(\Hc0)
       [] variant = "PitchBend" -> Wide(\Hd0)
       [] variant = "PerNotePitchBnd" -> PerNote(\H60)

\* impl From<MidiMessage> for UMP
UMP_from(b, msg) ==
  LET group == MidiMessage_group(msg)
  IN IF MidiMessage_group_panics(b, msg) THEN [kind |-> Panic, bytes |-> <<>>]
     ELSE CASE msg.kind = "Undefined" -> UMP(msg.variant, msg.args)
            [] msg.kind = "Data64" -> UMP("U64", msg.args)
            [] msg.kind = "Data128" -> UMP("U128", msg.args)
            [] msg.kind = "SystemCommon" ->
                 UMP_from_system_common(group, msg.variant, msg.args)
            [] msg.kind = "SystemRealtime" ->
                 UMP_from_system_realtime(group, msg.variant)
            [] msg.kind = "LegacyChannelVoice" ->
                 UMP_from_legacy(group, msg.variant, msg.args)
            [] msg.kind = "Utility" ->
                 UMP_from_utility(group, msg.variant, msg.args)
            [] msg.kind = "ChannelVoice" ->
                 UMP_from_channel_voice(group, msg.variant, msg.args)

----------------------------------------------------------------------------
(* message/flex.rs: the conversions of the header fields, both ways *)

\* a value of one of the flex enums: the variant and the byte it carries
\* (0 for a unit variant)
FlexValue(tag, val) == [tag |-> tag, val |-> val]
\* a conversion that panicked
FlexPanic == [tag |-> Panic, val |-> 0]
\* no conversion yet
NoFlex == [tag |-> "none", val |-> 0]

\* impl From<u8> for FlexAddress
FlexAddress_from(value) ==
  LET address == BitAnd(value \div 16, 3, 8)
      destination == BitAnd(value, \H0F, 8)
  IN CASE address = 0 -> FlexValue("Channel", destination)
       [] address = 1 -> FlexValue("Group", destination)
       [] address = 2 -> FlexValue("Reserved1", destination)
       [] address = 3 -> FlexValue("Reserved2", destination)
       [] OTHER -> FlexPanic

\* impl From<FlexAddress> for u8 with Group and Channel sharing a prefix
u8_from_FlexAddress_group0(value) ==
  CASE value.tag = "Channel" -> value.val
    [] value.tag = "Group" -> value.val
    [] value.tag = "Reserved1" -> BitOr(\H20, value.val, 8)
    [] value.tag = "Reserved2" -> BitOr(\H30, value.val, 8)

\* impl From<FlexAddress> for u8
u8_from_FlexAddress(value) ==
  CASE value.tag = "Channel" -> value.val
    [] value.tag = "Group" -> BitOr(\H10, value.val, 8)
    [] value.tag = "Reserved1" -> BitOr(\H20, value.val, 8)
    [] value.tag = "Reserved2" -> BitOr(\H30, value.val, 8)

\* impl From<u8> for FlexSetupAndPerformance, with the variant's byte
FlexSetupAndPerformance_from(b, value) ==
  IF b = "debug" /\ ~(value < 16) THEN FlexPanic
  ELSE CASE value = \H00 -> FlexValue("SetTempo", 0)
         [] value = \H01 -> FlexValue("SetTimeSignature", 0)
         [] value = \H02 -> FlexValue("SetMetronome", 0)
         [] value = \H05 -> FlexValue("SetKeySignature", 0)
         [] value = \H06 -> FlexValue("SetChordName", 0)
         [] value >= \H07 /\ value <= \H0F ->
              FlexValue("TextMessageCommonFormat", value)
         [] value = \H03 \/ value = \H04 -> FlexValue("Undefined", value)
         [] OTHER -> FlexPanic

\* impl From<FlexSetupAndPerformance> for u8 with SetKeySignature as 0x04
u8_from_FlexSetupAndPerformance_key4(value) ==
  CASE value.tag = "SetTempo" -> \H00
    [] value.tag = "SetTimeSignature" -> \H01
    [] value.tag = "SetMetronome" -> \H02
    [] value.tag = "SetKeySignature" -> \H04
    [] value.tag = "SetChordName" -> \H06
    [] value.tag = "TextMessageCommonFormat" -> value.val
    [] value.tag = "Undefined" -> value.val

\* impl From<FlexSetupAndPerformance> for u8
u8_from_FlexSetupAndPerformance(value) ==
  CASE value.tag = "SetTempo" -> \H00
    [] value.tag = "SetTimeSignature" -> \H01
    [] value.tag = "SetMetronome" -> \H02
    [] value.tag = "SetKeySignature" -> \H05
    [] value.tag = "SetChordName" -> \H06
    [] value.tag = "TextMessageCommonFormat" -> value.val
    [] value.tag = "Undefined" -> value.val

\* the variants of FlexMetadataText in the order of their bytes
FlexMetadataTextNames ==
  <<"Unknown", "ProjectName", "CompositionName", "MidiClipName",
    "CopyrightNotice", "ComposerName", "LyricistName", "ArrangerName",
    "PublisherName", "PrimaryPerformerName", "AccompanyingPerformerName",
    "RecordingDate", "RecordingLocation">>

\* impl From<u8> for FlexMetadataText, with the variant
FlexMetadataText_from(b, value) ==
  IF b = "debug" /\ ~(value < 16) THEN FlexPanic
  ELSE IF value <= \HC THEN FlexValue(FlexMetadataTextNames[value + 1], 0)
  ELSE FlexPanic

\* impl From<FlexMetadataText> for u8
u8_from_FlexMetadataText(value) ==
  (CHOOSE i \in DOMAIN FlexMetadataTextNames :
     FlexMetadataTextNames[i] = value.tag) - 1

\* the variants of FlexPerformanceTextEvent in the order of their bytes
FlexPerformanceTextEventNames ==
  <<"Unknown", "Lyrics", "LyricsLanguage", "RubyLyrics", "RubyLyricsLanguage">>

\* impl From<u8> for FlexPerformanceTextEvent, with the variant
FlexPerformanceTextEvent_from(b, value) ==
  IF b = "debug" /\ ~(value < 16) THEN FlexPanic
  ELSE IF value <= 4
  THEN FlexValue(FlexPerformanceTextEventNames[value + 1], 0)
  ELSE FlexPanic

\* impl From<FlexPerformanceTextEvent> for u8
u8_from_FlexPerformanceTextEvent(value) ==
  (CHOOSE i \in DOMAIN FlexPerformanceTextEventNames :
     FlexPerformanceTextEventNames[i] = value.tag) - 1

\* a FlexStatus: the variant, the inner enum (or the raw u16 of Reserved)
FlexStatusValue(tag, inner, raw) == [tag |-> tag, inner |-> inner, raw |-> raw]
\* a FlexStatus conversion that panicked
FlexStatusPanic == [tag |-> Panic, inner |-> FlexPanic, raw |-> 0]

\* impl From<u16> for FlexStatus, with the variant's payload
FlexStatus_from(b, value) ==
  LET status == u16_to_be_bytes(value)
      Wrap(tag, inner) ==
        IF inner.tag = Panic THEN FlexStatusPanic
        ELSE FlexStatusValue(tag, inner, 0)
  IN CASE status[1] = \H00 ->
            Wrap("SetupAndPerformance", FlexSetupAndPerformance_from(b, status[2]))
       [] status[1] = \H01 ->
            Wrap("MetadataText", FlexMetadataText_from(b, status[2]))
       [] status[1] = \H02 ->
            Wrap("PerformanceTextEvent",
                 FlexPerformanceTextEvent_from(b, status[2]))
       [] OTHER -> FlexStatusValue("Reserved", NoFlex, value)

\* impl From<FlexStatus> for u16 that keeps only the status byte of Reserved
u16_from_FlexStatus_low(value) ==
  CASE value.tag = "SetupAndPerformance" ->
         u8_from_FlexSetupAndPerformance(value.inner)
    [] value.tag = "MetadataText" ->
         BitOr(\H0100, u8_from_FlexMetadataText(value.inner), 16)
    [] value.tag = "PerformanceTextEvent" ->
         BitOr(\H0200, u8_from_FlexPerformanceTextEvent(value.inner), 16)
    [] value.tag = "Reserved" -> value.raw % 256

\* impl From<FlexStatus> for u16
u16_from_FlexStatus(value) ==
  CASE value.tag = "SetupAndPerformance" ->
         u8_from_FlexSetupAndPerformance(value.inner)
    [] value.tag = "MetadataText" ->
         BitOr(\H0100, u8_from_FlexMetadataText(value.inner), 16)
    [] value.tag = "PerformanceTextEvent" ->
         BitOr(\H0200, u8_from_FlexPerformanceTextEvent(value.inner), 16)
    [] value.tag = "Reserved" -> value.raw

\* sharps_or_flats as u8
I8asU8(x) == x % 256

\* FlexKeySignature(byte)
FlexKeySignature(byte) == [byte |-> byte]

\* impl From<u8> for FlexKeySignature
FlexKeySignature_from(value) == FlexKeySignature(value)

\* impl From<FlexKeySignature> for u8
u8_from_FlexKeySignature(value) == value.byte

\* FlexKeySignature::from_note
FlexKeySignature_from_note(tonic_note, sharps_or_flats) ==
  FlexKeySignature(BitOr((I8asU8(sharps_or_flats) * 16) % 256, tonic_note, 8))

\* FlexKeySignature::sharps_or_flats without the sign extension
FlexKeySignature_sharps_or_flats_unsigned(k) == k.byte \div 16

\* FlexKeySignature::sharps_or_flats
FlexKeySignature_sharps_or_flats(k) ==
  LET val == k.byte \div 16
  IN val - (IF val < 8 THEN 0 ELSE 16)

\* FlexKeySignature::tonic_note
FlexKeySignature_tonic_note(k) == BitAnd(k.byte, \H0F, 8)

----------------------------------------------------------------------------
(* The values the callers pass *)

\* 7-bit arguments (note numbers, velocities, indices, pressures)
U7s == {0, 60, 127}
\* 8-bit arguments that no constructor restricts
U8s == {0, 1, 200}
\* 16-bit arguments
U16s == {0, \H1234, \Hffff}
\* 14-bit pitch bend arguments
U14s == {0, \H00ff, \H2000, \H3fff}
\* 32-bit arguments
U32s == {Lit(0, 0, 0, 0), Lit(0, 0, 0, \H40), Lit(\H12, \H34, \H56, \H78),
         Lit(\Hff, \Hff, \Hff, \Hff)}
\* 32-bit arguments below 128
SmallU32s == {Lit(0, 0, 0, 0), Lit(0, 0, 0, 1), Lit(0, 0, 0, 127)}
\* Option<Attribute> arguments
Attributes ==
  {[kind |-> "None", data |-> 0]}
  \cup [kind : {"Manufacturer", "Profile", "Pitch79"}, data : {\Habcd}]
\* channels
Channels == {0, 3, 5, 15}

Built(name, m) == [ctor |-> name, msg |-> m]

\* every message a public constructor of Utility returns
UtilityConstructed ==
  {Built("Utility::jr_timestamp", Utility_jr_timestamp(x)) : x \in U16s}
  \cup {Built("Utility::jr_clock", Utility_jr_clock(x)) : x \in U16s}
  \cup {Built("Utility::delta_clockstamp", Utility_delta_clockstamp(x)) : x \in U16s}
  \cup {Built("Utility::delta_clockstamp_ticks_per_quarternote",
              Utility_delta_clockstamp_ticks_per_quarternote(x)) : x \in U16s}

\* every message a public constructor of LegacyChannelVoice returns
LegacyConstructed(b) ==
  {Built("LegacyChannelVoice::note_off", LegacyChannelVoice_note_off(b, n, v)) :
     n \in U7s, v \in U7s}
  \cup {Built("LegacyChannelVoice::note_on", LegacyChannelVoice_note_on(b, n, v)) :
     n \in U7s, v \in U7s}
  \cup {Built("LegacyChannelVoice::poly_pressure",
              LegacyChannelVoice_poly_pressure(b, n, v)) : n \in U7s, v \in U7s}
  \cup {Built("LegacyChannelVoice::control_change",
              LegacyChannelVoice_control_change(b, n, v)) : n \in U7s, v \in U7s}
  \cup {Built("LegacyChannelVoice::program_change",
              LegacyChannelVoice_program_change(b, n, v)) : n \in U7s, v \in U7s}
  \cup {Built("LegacyChannelVoice::channel_pressure",
              LegacyChannelVoice_channel_pressure(b, v)) : v \in U7s}
  \cup {Built("LegacyChannelVoice::pitch_bend",
              LegacyChannelVoice_pitch_bend(b, v)) : v \in U14s}

\* every message a public constructor of ChannelVoice returns
ChannelVoiceConstructed(b) ==
  {Built("ChannelVoice::note_off", ChannelVoice_note_off(b, n, v, a)) :
     n \in U7s, v \in U16s, a \in Attributes}
  \cup {Built("ChannelVoice::note_on", ChannelVoice_note_on(b, n, v, a)) :
     n \in U7s, v \in U16s, a \in Attributes}
  \cup {Built("ChannelVoice::poly_pressure", ChannelVoice_poly_pressure(b, n, v)) :
     n \in U7s, v \in U32s}
  \cup {Built("ChannelVoice::control_change", ChannelVoice_control_change(b, n, v)) :
     n \in U7s, v \in SmallU32s}
  \cup {Built("ChannelVoice::program_change", ChannelVoice_program_change(o, pr, bk)) :
     o \in U8s, pr \in U7s, bk \in U16s}
  \cup {Built("ChannelVoice::channel_pressure", ChannelVoice_channel_pressure(v)) :
     v \in U32s}
  \cup {Built("ChannelVoice::pitch_bend", ChannelVoice_pitch_bend(v)) : v \in U32s}
  \cup {Built("ChannelVoice::per_note_pitch_bend",
              ChannelVoice_per_note_pitch_bend(n, v)) : n \in U8s, v \in U32s}

Constructed(b) ==
  UtilityConstructed \cup LegacyConstructed(b) \cup ChannelVoiceConstructed(b)

\* the output buffers handed to encode: byte i holds a value no packet of
\* the model holds there
OutLens ==
  {WordBytes * k : k \in {0, 2, MaxOutWords}} \cup {WordBytes * MaxOutWords + 3}
OutBufs == {[i \in 1..n |-> \HA0 + i] : n \in OutLens}

\* type and group bytes, status bytes and the rest of the first word
HeadBytes == {16 * t + \Ha : t \in 0..15}
StatusBytes ==
  {\H00, \H02, \H04, \H05, \H20, \H35, \H7f, \H80, \H93, \Hf0, \Hf1, \Hf8, \Hff}
FlexBanks == {\H00, \H01, \H02, \H03}
FlexStatuses == {\H00, \H04, \H05, \H06, \H0c, \H0d, \H0f, \H10}
\* legacy channel voice words of every status nibble on channel 5
LegacyData == {<<\H40, \H00>>, <<\H3c, \H7f>>}
LegacyWords ==
  {Lit(\H2a, 16 * stat + 5, d[1], d[2]) : stat \in 8..14, d \in LegacyData}
\* the first word of the input buffers
HeaderWords ==
  {Lit(hd, sb, \H12, \H34) : hd \in HeadBytes, sb \in StatusBytes}
  \cup {Lit(\Hda, \H10, bk, fs) : bk \in FlexBanks, fs \in FlexStatuses}
  \cup LegacyWords
\* the lengths of the input buffers: those next to a word boundary
InLens == {n \in 0..MaxBufLen : n % WordBytes \in {0, 3} \/ n = MaxBufLen}
\* the input buffers handed to decode on host h: the bytes of a first word
\* in the memory order of h, then bytes that differ from position to
\* position, cut at the lengths of InLens
InBufs(h) ==
  {[i \in 1..n |-> IF i <= 4 THEN to_ne_bytes(h, w)[i] ELSE (17 * i) % 256] :
     w \in HeaderWords, n \in InLens}

----------------------------------------------------------------------------
(* The codec and the message categories at work *)

\* a complete packet as codec::encode lays it out for message type t: the
\* head byte (type nibble, group 0xA), the status byte sb, then filler
StreamPacket(t, sb) ==
  [i \in 1..decode_arm(t).bytes |->
     CASE i = 1 -> 16 * t + \Ha
       [] i = 2 -> sb
       [] OTHER -> (17 * i + t) % 256]
\* the status bytes of the packets the stream carries
StreamStatusBytes ==
  {16 * s + 3 : s \in 0..15} \cup {\Hf1, \Hf2, \Hf6, \Hf8, \Hfa, \Hfc, \Hff}
\* the packets sent alone
SinglePackets == {StreamPacket(t, sb) : t \in 0..15, sb \in StreamStatusBytes}
\* the packets sent in a row, one of each width
SeqPackets ==
  {StreamPacket(\H2, \H93), StreamPacket(\H4, \H93),
   StreamPacket(\HB, \H03), StreamPacket(\H5, \H03)}
\* the sequences of at most n packets of SeqPackets
RECURSIVE PacketSeqs(_)
PacketSeqs(n) ==
  IF n = 0 THEN {<<>>}
  ELSE LET shorter == PacketSeqs(n - 1)
       IN shorter \cup {Append(ps, q) : ps \in shorter, q \in SeqPackets}
\* what is left of a packet whose tail never arrived
Fragments ==
  {<<>>} \cup {SubSeq(q, 1, k) : q \in SeqPackets, k \in {1, 3}}
         \cup {SubSeq(q, 1, Len(q) - 1) : q \in SeqPackets}
\* the inputs of the stream reader: the complete packets and the fragment
StreamInputs ==
  {[packets |-> <<q>>, frag |-> f] :
     q \in SinglePackets, f \in {<<>>, <<\H4a, \H93, 7>>}}
  \cup {[packets |-> ps, frag |-> f] : ps \in PacketSeqs(MaxPackets), f \in Fragments}
\* the bytes of a sequence of packets, in order
RECURSIVE Concat(_)
Concat(ps) == IF ps = <<>> THEN <<>> ELSE Head(ps) \o Concat(Tail(ps))

\* the ChannelVoice packets handed to voice.rs: ProgramChange and NoteOn
\* words of several groups, channels, option bytes, programs and banks
VoiceGroups == {0, 1, 10}
VoiceChannels == {0, 5}
VoiceOptions == {0, 1, 2, 3}
VoiceBanks == {<<0, 0>>, <<\H01, \H02>>, <<\H7f, \H00>>}
VoicePackets ==
  {<<Lit(\H40 + g, 16 * stat + ch, 0, opt), Lit(pr, 0, bk[1], bk[2])>> :
     g \in VoiceGroups, stat \in {\H9, \Hc}, ch \in VoiceChannels,
     opt \in VoiceOptions, pr \in {0, \H40}, bk \in VoiceBanks}

\* the groups a caller passes to into_msg
Groups == 0..15
\* the groups of the messages other than Utility
RoundGroups == {0, 9, 15}
\* the channels of the round-trip messages
RoundChannels == {0, 5, 15}
\* 16-bit clocks and timestamps
RoundU16s == {0, 1, \H00ff, \H0100, \Hdead, \Hffff}
\* 14-bit song positions
RoundSPPs == {0, 1, \H007f, \H0080, \H1234, \H3fff}
\* 32-bit data of the ChannelVoice messages
RoundU32s == {Lit(0, 0, 0, 0), Lit(\H12, \H34, \H56, \H78)}

\* Utility::*.into_msg(g)
UtilityMessages ==
  {MidiMessage(g, "Utility", "NoOp", <<>>) : g \in Groups}
    \cup {MidiMessage(g, "Utility", v, <<x>>) :
            g \in Groups, v \in {"JrClock", "JrTimestamp"}, x \in RoundU16s}

\* SystemCommon::*.into_msg(g)
SystemCommonMessages ==
  {MidiMessage(g, "SystemCommon", "TuneRequest", <<>>) : g \in RoundGroups}
    \cup {MidiMessage(g, "SystemCommon", v, <<x>>) :
            g \in RoundGroups, v \in {"TimeCode", "SongSelect"}, x \in U7s}
    \cup {MidiMessage(g, "SystemCommon", "SongPositionPointer", <<x>>) :
            g \in RoundGroups, x \in RoundSPPs}

\* SystemRealtime::*.into_msg(g)
SystemRealtimeMessages ==
  {MidiMessage(g, "SystemRealtime", v, <<>>) :
     g \in RoundGroups,
     v \in {"TimingClock", "Start", "Continue", "Stop", "ActiveSensing",
            "Reset"}}

\* LegacyChannelVoice::*.into_msg(g)
LegacyMessages ==
  {MidiMessage(g, "LegacyChannelVoice", v, <<c, x, y>>) :
     g \in RoundGroups, c \in RoundChannels, x \in U7s, y \in {0, 127},
     v \in {"NoteOn", "NoteOff", "PolyPressure", "ControlChange",
            "ProgramChange", "ChannelPressure"}}
    \cup {MidiMessage(g, "LegacyChannelVoice", "PitchBend", <<c, x>>) :
            g \in RoundGroups, c \in RoundChannels, x \in U14s}

\* ChannelVoice::*.into_msg(g)
ChannelVoiceMessages ==
  {MidiMessage(g, "ChannelVoice", v, <<c, x, y>> \o d) :
     g \in RoundGroups, c \in RoundChannels, x \in {0, 60}, y \in {0, 127},
     d \in RoundU32s,
     v \in {"RegPerNoteCtrl", "AsgnPerNoteCtrl", "RegsteredCtrl",
            "AssignableCtrl", "RelRegCtrl", "RelAssnCtrl"}}
    \cup {MidiMessage(g, "ChannelVoice", v, <<c, x>> \o d) :
            g \in RoundGroups, c \in RoundChannels, x \in {0, 60},
            d \in RoundU32s,
            v \in {"PerNotePitchBnd", "PolyPressure", "ControlChange"}}
    \cup {MidiMessage(g, "ChannelVoice", v, <<c>> \o d) :
            g \in RoundGroups, c \in RoundChannels, d \in RoundU32s,
            v \in {"ChannelPressure", "PitchBend"}}
    \cup {MidiMessage(g, "ChannelVoice", v, <<c, n, a, x, y>>) :
            g \in RoundGroups, c \in RoundChannels, n \in {0, 60},
            a \in {0, 3}, x \in {0, \H1234}, y \in {0, \Hffff},
            v \in {"NoteOn", "NoteOff"}}
    \cup {MidiMessage(g, "ChannelVoice", "ProgramChange", <<c, o, p, b>>) :
            g \in RoundGroups, c \in RoundChannels, o \in {0, 1},
            p \in {0, 127}, b \in {0, \H0102}}
    \cup {MidiMessage(g, "ChannelVoice", "PerNoteMngmt", <<c, n, f>>) :
            g \in RoundGroups, c \in RoundChannels, n \in {0, 60},
            f \in {0, 3}}

\* the messages a caller builds with into_msg
RoundMessages ==
  UtilityMessages \cup SystemCommonMessages \cup SystemRealtimeMessages
    \cup LegacyMessages \cup ChannelVoiceMessages

\* every u8
Bytes == 0..255
\* the status banks of the FlexStatus inputs
FlexStatusBanks == {\H00, \H01, \H02, \H03, \H04, \H7f, \Hff}
\* the 16-bit (status bank, status) inputs of FlexStatus::from
FlexStatusWords == {bank * 256 + s : bank \in FlexStatusBanks, s \in Bytes}
\* the tonic notes of FlexKeySignature::from_note
Tonics == 0..15
\* the sharps (+) or flats (-) of FlexKeySignature::from_note
SharpsOrFlats == -8..7

\* a packet on the wire: its first byte, its fourth byte, zeros elsewhere,
\* as long as its first byte says
SplitPacket(b0, b3) ==
  [i \in 1..ump_arm(b0 \div 16).len |->
     IF i = 1 THEN b0 ELSE IF i = 4 THEN b3 ELSE 0]
\* the packets of the buffers that are split both ways
SplitPackets ==
  {SplitPacket(b0, b3) : b0 \in {\H20, \H40, \Hd0}, b3 \in {\H00, \H40}}
\* the buffers: one or two packets and the start of one more, or none
SplitBufs ==
  {p \o f : p \in SplitPackets, f \in {<<>>, <<\H20>>}}
    \cup {p \o q \o f : p \in SplitPackets, q \in SplitPackets,
                        f \in {<<>>, <<\H20>>}}

VARIABLES
  host,    \* byte order of the build target: "le" or "be"
  build,   \* "debug" (debug_assert! checked) or "release"
  ctor,    \* the constructor that built the message, "none" for a decoded one
  base,    \* the message as constructed or decoded
  src,     \* the message at hand (base after the with_channel calls)
  lastch,  \* the channel of the last with_channel call, -1 before the first
  inb,     \* the buffer handed to decode
  out0,    \* the buffer handed to encode, before the call
  outb,    \* that buffer after the call
  wrote,   \* the count encode returned
  got,     \* the result of decode
  st,      \* the result of status()
  mt,      \* the result of message_type()
  cv,      \* the result of ChannelVoice::from on a legacy message
  phase,   \* what the caller did last
  packets, \* the complete packets the byte source was filled with
  frag,    \* the truncated packet that follows them in the byte source
  bytes,   \* the bytes the source of stream_from_bytes still holds
  items,   \* the UMPs the stream has yielded, in order
  ended,   \* a call of next() has returned None
  endcalls, \* how many calls of next() returned None
  conv,    \* MidiMessage::from of the UMP yielded last, once converted
  vmsg,    \* the ChannelVoice of voice.rs at hand
  pc,      \* the result of its program_change()
  rmsg,    \* the MidiMessage a caller built
  rump,    \* UMP::from of that message
  rback,   \* MidiMessage::from of that UMP
  ffn,     \* the flex conversion a caller applied
  fin,     \* its arguments
  fout,    \* its result
  fback,   \* the result of the conversion back, -1 before it
  sbuf,    \* the buffer that is split both ways
  srest,   \* the bytes the stream over it still holds
  swidths, \* the widths of the UMPs the stream yielded
  sdone,   \* the stream returned None
  drest,   \* the slice the decode loop has left
  dwidths, \* the byte counts decode returned
  ddone    \* decode returned None

codec_vars ==
  <<ctor, base, src, lastch, inb, out0, outb, wrote, got, st, mt, cv>>
stream_vars == <<packets, frag, bytes, items, ended, endcalls, conv>>
voice_vars == <<vmsg, pc>>
round_vars == <<rmsg, rump, rback>>
flex_vars == <<ffn, fin, fout, fback>>
split_vars == <<sbuf, srest, swidths, sdone, drest, dwidths, ddone>>
ext_vars == <<round_vars, flex_vars, split_vars>>
vars == <<host, build, phase, codec_vars, stream_vars, voice_vars, ext_vars>>

Hosts == {"le", "be"}
Builds == {"debug", "release"}

Init ==
  /\ host \in Hosts
  /\ build \in Builds
  /\ ctor = "none"
  /\ base = NoMsg
  /\ src = NoMsg
  /\ lastch = -1
  /\ inb = <<>>
  /\ out0 = <<>>
  /\ outb = <<>>
  /\ wrote = 0
  /\ got = DecNone
  /\ st = "none"
  /\ mt = "none"
  /\ cv = NoMsg
  /\ phase = "idle"
  /\ packets = <<>>
  /\ frag = <<>>
  /\ bytes = <<>>
  /\ items = <<>>
  /\ ended = FALSE
  /\ endcalls = 0
  /\ conv = NoMidi
  /\ vmsg = NoMsg
  /\ pc = NoProgramChange
  /\ rmsg = NoMidi
  /\ rump = NoUMP
  /\ rback = NoMidi
  /\ ffn = "none"
  /\ fin = <<>>
  /\ fout = NoFlex
  /\ fback = -1
  /\ sbuf = <<>>
  /\ srest = <<>>
  /\ swidths = <<>>
  /\ sdone = FALSE
  /\ drest = <<>>
  /\ dwidths = <<>>
  /\ ddone = FALSE

\* a caller builds a message with one of the public constructors
Construct ==
  /\ phase = "idle"
  /\ \E c \in Constructed(build) :
    /\ ctor' = c.ctor
    /\ base' = c.msg
    /\ src' = c.msg
    /\ phase' = "built"
    /\ lastch' = -1
    /\ inb' = <<>>
    /\ out0' = <<>>
    /\ outb' = <<>>
    /\ wrote' = 0
    /\ got' = DecNone
    /\ st' = "none"
    /\ mt' = "none"
    /\ cv' = NoMsg
    /\ UNCHANGED <<host, build>>
    /\ UNCHANGED <<stream_vars, voice_vars, ext_vars>>

\* a caller receives a buffer
Load ==
  /\ phase = "idle"
  /\ \E b \in InBufs(host) :
    /\ inb' = b
    /\ phase' = "loaded"
    /\ ctor' = "none"
    /\ base' = NoMsg
    /\ src' = NoMsg
    /\ lastch' = -1
    /\ out0' = <<>>
    /\ outb' = <<>>
    /\ wrote' = 0
    /\ got' = DecNone
    /\ st' = "none"
    /\ mt' = "none"
    /\ cv' = NoMsg
    /\ UNCHANGED <<host, build>>
    /\ UNCHANGED <<stream_vars, voice_vars, ext_vars>>

\* codec::decode on the received buffer
DecodeInput ==
  /\ phase = "loaded"
  /\ got' = decode(host, inb)
  /\ IF got'.some
     THEN /\ base' = got'.data
          /\ src' = got'.data
          /\ phase' = "decoded"
     ELSE /\ UNCHANGED <<base, src>>
          /\ phase' = "failed"
  /\ UNCHANGED <<cv, host, build, ctor, lastch, inb, out0, outb, wrote, st, mt>>
  /\ UNCHANGED <<stream_vars, voice_vars, ext_vars>>

\* with_channel on the message at hand
WithChannel ==
  /\ phase \in {"built", "decoded"}
  /\ src.cat \in ChannelCats
  /\ \E channel \in Channels :
       /\ src' = with_channel(build, src, channel)
       /\ lastch' = channel
  /\ UNCHANGED <<cv, host, build, ctor, base, inb, out0, outb, wrote, got, st, mt,
                 phase>>
  /\ UNCHANGED <<stream_vars, voice_vars, ext_vars>>

\* codec::encode of the message at hand into an output buffer
Encode ==
  /\ phase \in {"built", "decoded"}
  /\ \E o \in OutBufs :
       LET r == encode(host, src, o)
       IN /\ out0' = o
          /\ outb' = r.buf
          /\ wrote' = r.n
  /\ phase' = "encoded"
  /\ UNCHANGED <<cv, host, build, ctor, base, src, lastch, inb, got, st, mt>>
  /\ UNCHANGED <<stream_vars, voice_vars, ext_vars>>

\* codec::decode on the buffer encode wrote
DecodeEncoded ==
  /\ phase = "encoded"
  /\ got' = decode(host, outb)
  /\ phase' = "redecoded"
  /\ UNCHANGED <<cv, host, build, ctor, base, src, lastch, inb, out0, outb, wrote,
                 st, mt>>
  /\ UNCHANGED <<stream_vars, voice_vars, ext_vars>>

\* status() on the message at hand
Status ==
  /\ phase \in {"built", "decoded"}
  /\ src.cat \in StatusCats
  /\ st' = status_of(build, src)
  /\ phase' = "status"
  /\ UNCHANGED <<cv, host, build, ctor, base, src, lastch, inb, out0, outb, wrote,
                 got, mt>>
  /\ UNCHANGED <<stream_vars, voice_vars, ext_vars>>

\* message_type() on the message at hand
MessageTypeCall ==
  /\ phase \in {"built", "decoded"}
  /\ src.cat \in StatusCats
  /\ mt' = message_type_of(build, src)
  /\ phase' = "typed"
  /\ UNCHANGED <<cv, host, build, ctor, base, src, lastch, inb, out0, outb, wrote,
                 got, st>>
  /\ UNCHANGED <<stream_vars, voice_vars, ext_vars>>

\* ChannelVoice::from on the legacy message at hand
ConvertLegacy ==
  /\ phase \in {"built", "decoded"}
  /\ src.cat = "LegacyChannelVoice"
  /\ cv' = ChannelVoice_from(build, src)
  /\ phase' = "converted"
  /\ UNCHANGED <<host, build, ctor, base, src, lastch, inb, out0, outb, wrote,
                 got, st, mt>>
  /\ UNCHANGED <<stream_vars, voice_vars, ext_vars>>

Next ==
  \/ Construct
  \/ Load
  \/ DecodeInput
  \/ WithChannel
  \/ Encode
  \/ DecodeEncoded
  \/ Status
  \/ MessageTypeCall
  \/ ConvertLegacy

Spec == Init /\ [][Next]_vars

\* the constructors and the channel builder alone
NextConstruct ==
  \/ Construct
  \/ WithChannel

SpecConstruct == Init /\ [][NextConstruct]_vars

\* a caller opens UMP::stream_from_bytes over a byte source
Open ==
  /\ phase = "idle"
  /\ \E in \in StreamInputs :
       /\ packets' = in.packets
       /\ frag' = in.frag
       /\ bytes' = Concat(in.packets) \o in.frag
  /\ items' = <<>>
  /\ ended' = FALSE
  /\ endcalls' = 0
  /\ conv' = NoMidi
  /\ phase' = "stream"
  /\ UNCHANGED <<host, build, codec_vars, voice_vars, ext_vars>>

\* one call of next() on the stream
StreamNext ==
  /\ phase = "stream"
  /\ conv.kind # Panic
  /\ endcalls < MaxEndCalls
  /\ LET r == stream_next(bytes)
     IN /\ bytes' = r.rest
        /\ IF r.some
           THEN /\ items' = Append(items, r.item)
                /\ UNCHANGED <<ended, endcalls>>
           ELSE /\ ended' = TRUE
                /\ endcalls' = endcalls + 1
                /\ UNCHANGED items
  /\ conv' = NoMidi
  /\ UNCHANGED <<host, build, phase, codec_vars, voice_vars, ext_vars, packets, frag>>

\* MidiMessage::from on the UMP the stream yielded last
Convert ==
  /\ phase = "stream"
  /\ items # <<>>
  /\ conv = NoMidi
  /\ conv' = MidiMessage_from(items[Len(items)])
  /\ UNCHANGED <<host, build, phase, codec_vars, voice_vars, ext_vars, packets, frag, bytes, items,
                 ended, endcalls>>

NextStream ==
  \/ Open
  \/ StreamNext
  \/ Convert

SpecStream == Init /\ [][NextStream]_vars

\* ChannelVoice::from_packet_unchecked of voice.rs on a received packet
LoadVoice ==
  /\ phase = "idle"
  /\ \E q \in VoicePackets : vmsg' = Msg("ChannelVoice", q)
  /\ pc' = NoProgramChange
  /\ phase' = "voice"
  /\ UNCHANGED <<host, build, codec_vars, stream_vars, ext_vars>>

\* program_change() on the ChannelVoice of voice.rs
ProgramChangeCall ==
  /\ phase = "voice"
  /\ pc' = Voice_program_change(host, vmsg)
  /\ phase' = "program"
  /\ UNCHANGED <<host, build, codec_vars, stream_vars, ext_vars, vmsg>>

NextVoice ==
  \/ LoadVoice
  \/ ProgramChangeCall

SpecVoice == Init /\ [][NextVoice]_vars

\* a caller builds a MidiMessage with into_msg
BuildMessage ==
  /\ phase = "idle"
  /\ rmsg' \in RoundMessages
  /\ rump' = NoUMP
  /\ rback' = NoMidi
  /\ phase' = "message"
  /\ UNCHANGED <<host, build, codec_vars, stream_vars, voice_vars, flex_vars, split_vars>>

\* UMP::from on the message
IntoUMP ==
  /\ phase = "message"
  /\ rump' = UMP_from(build, rmsg)
  /\ phase' = "ump"
  /\ UNCHANGED <<host, build, codec_vars, stream_vars, voice_vars, flex_vars, split_vars, rmsg, rback>>

\* MidiMessage::from on the UMP
FromUMP ==
  /\ phase = "ump"
  /\ rump.kind # Panic
  /\ rback' = MidiMessage_from(rump)
  /\ phase' = "back"
  /\ UNCHANGED <<host, build, codec_vars, stream_vars, voice_vars, flex_vars, split_vars, rmsg, rump>>

NextRound ==
  \/ BuildMessage
  \/ IntoUMP
  \/ FromUMP

SpecRound == Init /\ [][NextRound]_vars

\* FlexAddress::from on a byte
AddressFrom ==
  /\ phase = "idle"
  /\ \E b \in Bytes :
       /\ fin' = <<b>>
       /\ fout' = FlexAddress_from(b)
  /\ ffn' = "address"
  /\ fback' = -1
  /\ phase' = "flexed"
  /\ UNCHANGED <<host, build, codec_vars, stream_vars, voice_vars, round_vars, split_vars>>

\* u8::from on the FlexAddress
AddressInto ==
  /\ phase = "flexed"
  /\ ffn = "address"
  /\ fout.tag # Panic
  /\ fback' = u8_from_FlexAddress(fout)
  /\ phase' = "flexback"
  /\ UNCHANGED <<host, build, codec_vars, stream_vars, voice_vars, round_vars, split_vars,
                 ffn, fin, fout>>

\* FlexSetupAndPerformance::from on a byte
SetupFrom ==
  /\ phase = "idle"
  /\ \E b \in Bytes :
       /\ fin' = <<b>>
       /\ fout' = FlexSetupAndPerformance_from(build, b)
  /\ ffn' = "setup"
  /\ fback' = -1
  /\ phase' = "flexed"
  /\ UNCHANGED <<host, build, codec_vars, stream_vars, voice_vars, round_vars, split_vars>>

\* u8::from on the FlexSetupAndPerformance
SetupInto ==
  /\ phase = "flexed"
  /\ ffn = "setup"
  /\ fout.tag # Panic
  /\ fback' = u8_from_FlexSetupAndPerformance(fout)
  /\ phase' = "flexback"
  /\ UNCHANGED <<host, build, codec_vars, stream_vars, voice_vars, round_vars, split_vars,
                 ffn, fin, fout>>

\* FlexMetadataText::from on a byte
MetadataFrom ==
  /\ phase = "idle"
  /\ \E b \in Bytes :
       /\ fin' = <<b>>
       /\ fout' = FlexMetadataText_from(build, b)
  /\ ffn' = "metadata"
  /\ fback' = -1
  /\ phase' = "flexed"
  /\ UNCHANGED <<host, build, codec_vars, stream_vars, voice_vars, round_vars, split_vars>>

\* u8::from on the FlexMetadataText
MetadataInto ==
  /\ phase = "flexed"
  /\ ffn = "metadata"
  /\ fout.tag # Panic
  /\ fback' = u8_from_FlexMetadataText(fout)
  /\ phase' = "flexback"
  /\ UNCHANGED <<host, build, codec_vars, stream_vars, voice_vars, round_vars, split_vars,
                 ffn, fin, fout>>

\* FlexPerformanceTextEvent::from on a byte
PerformanceFrom ==
  /\ phase = "idle"
  /\ \E b \in Bytes :
       /\ fin' = <<b>>
       /\ fout' = FlexPerformanceTextEvent_from(build, b)
  /\ ffn' = "performance"
  /\ fback' = -1
  /\ phase' = "flexed"
  /\ UNCHANGED <<host, build, codec_vars, stream_vars, voice_vars, round_vars, split_vars>>

\* u8::from on the FlexPerformanceTextEvent
PerformanceInto ==
  /\ phase = "flexed"
  /\ ffn = "performance"
  /\ fout.tag # Panic
  /\ fback' = u8_from_FlexPerformanceTextEvent(fout)
  /\ phase' = "flexback"
  /\ UNCHANGED <<host, build, codec_vars, stream_vars, voice_vars, round_vars, split_vars,
                 ffn, fin, fout>>

\* FlexStatus::from on a 16-bit value
StatusFrom ==
  /\ phase = "idle"
  /\ \E x \in FlexStatusWords :
       /\ fin' = <<x>>
       /\ fout' = FlexStatus_from(build, x)
  /\ ffn' = "status"
  /\ fback' = -1
  /\ phase' = "flexed"
  /\ UNCHANGED <<host, build, codec_vars, stream_vars, voice_vars, round_vars, split_vars>>

\* u16::from on the FlexStatus
StatusInto ==
  /\ phase = "flexed"
  /\ ffn = "status"
  /\ fout.tag # Panic
  /\ fback' = u16_from_FlexStatus(fout)
  /\ phase' = "flexback"
  /\ UNCHANGED <<host, build, codec_vars, stream_vars, voice_vars, round_vars, split_vars,
                 ffn, fin, fout>>

\* FlexKeySignature::from on a byte
KeySignatureFrom ==
  /\ phase = "idle"
  /\ \E b \in Bytes :
       /\ fin' = <<b>>
       /\ fout' = FlexKeySignature_from(b)
  /\ ffn' = "key_signature"
  /\ fback' = -1
  /\ phase' = "flexed"
  /\ UNCHANGED <<host, build, codec_vars, stream_vars, voice_vars, round_vars, split_vars>>

\* u8::from on the FlexKeySignature
KeySignatureInto ==
  /\ phase = "flexed"
  /\ ffn = "key_signature"
  /\ fback' = u8_from_FlexKeySignature(fout)
  /\ phase' = "flexback"
  /\ UNCHANGED <<host, build, codec_vars, stream_vars, voice_vars, round_vars, split_vars,
                 ffn, fin, fout>>

\* FlexKeySignature::from_note on a tonic and a count of sharps or flats
FromNote ==
  /\ phase = "idle"
  /\ \E t \in Tonics, s \in SharpsOrFlats :
       /\ fin' = <<t, s>>
       /\ fout' = FlexKeySignature_from_note(t, s)
  /\ ffn' = "from_note"
  /\ fback' = -1
  /\ phase' = "flexed"
  /\ UNCHANGED <<host, build, codec_vars, stream_vars, voice_vars, round_vars, split_vars>>

\* sharps_or_flats() and tonic_note() on the FlexKeySignature
ReadKeySignature ==
  /\ phase = "flexed"
  /\ ffn = "from_note"
  /\ fback' = <<FlexKeySignature_sharps_or_flats(fout),
                FlexKeySignature_tonic_note(fout)>>
  /\ phase' = "flexback"
  /\ UNCHANGED <<host, build, codec_vars, stream_vars, voice_vars, round_vars, split_vars,
                 ffn, fin, fout>>

NextFlex ==
  \/ AddressFrom
  \/ AddressInto
  \/ SetupFrom
  \/ SetupInto
  \/ MetadataFrom
  \/ MetadataInto
  \/ PerformanceFrom
  \/ PerformanceInto
  \/ StatusFrom
  \/ StatusInto
  \/ KeySignatureFrom
  \/ KeySignatureInto
  \/ FromNote
  \/ ReadKeySignature

SpecFlex == Init /\ [][NextFlex]_vars

\* a caller hands one buffer to UMP::stream_from_bytes and to a loop of
\* codec::decode
OpenSplit ==
  /\ phase = "idle"
  /\ \E buf \in SplitBufs :
       /\ sbuf' = buf
       /\ srest' = buf
       /\ drest' = buf
  /\ swidths' = <<>>
  /\ dwidths' = <<>>
  /\ sdone' = FALSE
  /\ ddone' = FALSE
  /\ phase' = "split"
  /\ UNCHANGED <<host, build, codec_vars, stream_vars, voice_vars, round_vars,
                 flex_vars>>

\* one call of next() on the stream over the buffer
SplitStreamNext ==
  /\ phase = "split"
  /\ ~sdone
  /\ LET r == stream_next(srest)
     IN /\ srest' = r.rest
        /\ IF r.some
           THEN /\ swidths' = Append(swidths, Len(r.item.bytes))
                /\ UNCHANGED sdone
           ELSE /\ sdone' = TRUE
                /\ UNCHANGED swidths
  /\ UNCHANGED <<host, build, phase, codec_vars, stream_vars, voice_vars,
                 round_vars, flex_vars, sbuf, drest, dwidths, ddone>>

\* one call of codec::decode on the rest of the buffer, which the caller
\* then advances by the count returned
SplitDecode ==
  /\ phase = "split"
  /\ ~ddone
  /\ LET r == decode(host, drest)
     IN IF r.some
        THEN /\ dwidths' = Append(dwidths, r.n)
             /\ drest' = SubSeq(drest, r.n + 1, Len(drest))
             /\ UNCHANGED ddone
        ELSE /\ ddone' = TRUE
             /\ UNCHANGED <<dwidths, drest>>
  /\ UNCHANGED <<host, build, phase, codec_vars, stream_vars, voice_vars,
                 round_vars, flex_vars, sbuf, srest, swidths, sdone>>

NextSplit ==
  \/ OpenSplit
  \/ SplitStreamNext
  \/ SplitDecode

SpecSplit == Init /\ [][NextSplit]_vars

----------------------------------------------------------------------------
(* Properties of the codec and of the message categories *)

\* the width table of the packet format: words of a packet of type t
WidthTable(t) ==
  CASE t \in {0, 1, 2, 6, 7} -> 1
    [] t \in {3, 4, 8, 9, 10} -> 2
    [] t \in {11, 12} -> 3
    [] t \in {5, 13, 14, 15} -> 4

\* the variant of Data the packet format assigns to type t
VariantTable(t) ==
  CASE t = 0 -> "Utility"
    [] t = 1 -> "System"
    [] t = 2 -> "LegacyChannelVoice"
    [] t = 3 -> "Data64"
    [] t = 4 -> "ChannelVoice"
    [] t = 5 -> "Data128"
    [] t = 13 -> "Flex"
    [] t = 15 -> "UmpStream"
    [] t \in {6, 7} -> "Reserved32"
    [] t \in {8, 9, 10} -> "Reserved64"
    [] t \in {11, 12} -> "Reserved96"
    [] t = 14 -> "Reserved128"

\* the type nibble of the first word of buffer b on host h (4 <= Len(b))
TypeNibble(h, b) == (IF h = "be" THEN b[1] ELSE b[4]) \div 16

\* the type nibble of each category
OwnNibble(cat) ==
  CASE cat = "Utility" -> 0
    [] cat = "LegacyChannelVoice" -> 2
    [] cat = "ChannelVoice" -> 4

\* DecodeInput has run and nothing has overwritten its result
AfterDecodeInput == phase \in {"decoded", "failed"}

\* C1: a message built by a public constructor of Utility,
\* LegacyChannelVoice or ChannelVoice (with_channel calls allowed), encoded
\* into a 16-byte buffer and decoded again: encode returns 4 bytes per word
\* of the message and decode returns that count with the same message.
C1_RoundTrip ==
  (phase = "redecoded" /\ ctor # "none" /\ Len(out0) = 16)
    => /\ wrote = 4 * Len(src.packet)
       /\ got = DecSome(4 * Len(src.packet), src)

\* C2: on a buffer of at least 16 bytes decode succeeds for each of the 16
\* type nibbles, consumes 4 bytes per word of the width table and returns
\* the variant of that type wrapping a packet of exactly that many words.
C2_WidthTableFidelity ==
  (AfterDecodeInput /\ Len(inb) >= 16)
    => LET t == TypeNibble(host, inb)
       IN /\ got.some
          /\ got.n = 4 * WidthTable(t)
          /\ Len(got.data.packet) = WidthTable(t)
          /\ got.data.cat = VariantTable(t)

\* a four-word type decoded from a buffer of more than 16 bytes
C2_Witness ==
  /\ phase = "decoded"
  /\ Len(inb) > 16
  /\ TypeNibble(host, inb) = 5
  /\ got.n = 16

\* C3: decode returns None exactly when the buffer holds fewer bytes than
\* the width of its type nibble (or no first word at all), and never panics.
C3_OnlyShortBuffersFail ==
  AfterDecodeInput
    => /\ got.data # PanicMsg
       /\ IF Len(inb) < 4 THEN ~got.some
          ELSE got.some <=> (Len(inb) >= 4 * WidthTable(TypeNibble(host, inb)))

\* a three-word type on a buffer one byte short of three words
C3_Witness ==
  /\ phase = "failed"
  /\ Len(inb) = 11
  /\ TypeNibble(host, inb) = 12
  /\ got = DecNone

\* C4: a decoded message encoded into a buffer of at least the decoded
\* length: encode returns that length, the first bytes of the output equal
\* the input bytes and the rest of the output buffer is unchanged.
C4_ReencodeReproduces ==
  (phase = "encoded" /\ ctor = "none" /\ src = got.data /\ Len(out0) >= got.n)
    => /\ wrote = got.n
       /\ Len(outb) = Len(out0)
       /\ \A i \in 1..Len(outb) :
            outb[i] = IF i <= got.n THEN inb[i] ELSE out0[i]

\* a System packet with a status byte System::status does not know,
\* encoded into a buffer longer than the packet
C4_Witness ==
  /\ phase = "encoded"
  /\ ctor = "none"
  /\ src = got.data
  /\ src.cat = "System"
  /\ System_status(src) = Panic
  /\ Len(out0) > got.n
  /\ wrote = 4

\* C5: status() of a decoded Utility, System, LegacyChannelVoice,
\* ChannelVoice, Data64, Data128 or Flex message returns a value for every
\* status code and never panics.
C5_StatusNeverPanics ==
  (phase = "status" /\ ctor = "none") => st # Panic

\* C6: MidiMessage::from of a UMP the stream yielded returns a MidiMessage
\* (Undefined for a status its category does not define) and never panics.
C6_ConversionNeverPanics ==
  (phase = "stream" /\ conv # NoMidi) => conv.kind # Panic

\* the UMP variant that holds a packet of w words
UmpKindTable(w) ==
  CASE w = 1 -> "U32" [] w = 2 -> "U64" [] w = 3 -> "U96" [] w = 4 -> "U128"

\* every packet of the input is as wide as the table gives for its top nibble
CompletePackets ==
  \A i \in 1..Len(packets) :
    Len(packets[i]) = WordBytes * WidthTable(packets[i][1] \div 16)

\* the items yielded so far are the leading packets of the input, each in
\* the variant of its width and holding exactly its bytes
ItemsArePackets ==
  /\ Len(items) <= Len(packets)
  /\ \A i \in 1..Len(items) :
       items[i] = UMP(UmpKindTable(WidthTable(packets[i][1] \div 16)), packets[i])

\* C7: over k complete packets followed by at most 3 further bytes the
\* stream yields exactly the k packets in input order, each as the variant
\* of its width holding exactly its bytes; before the end the source holds
\* exactly the bytes of the packets not yet yielded and the trailing bytes.
C7_StreamYieldsPackets ==
  (phase = "stream" /\ CompletePackets /\ Len(frag) <= 3) =>
    /\ ItemsArePackets
    /\ ~ended =>
         bytes = Concat(SubSeq(packets, Len(items) + 1, Len(packets))) \o frag
    /\ ended => Len(items) = Len(packets)

\* the stream has ended after three packets of different widths and three
\* trailing bytes
C7_Witness ==
  /\ phase = "stream"
  /\ ended
  /\ Len(frag) = 3
  /\ Len(packets) = 3
  /\ Len(items) = 3
  /\ Cardinality({Len(packets[i]) : i \in 1..3}) = 3

\* C8: the stream never yields more than floor(n/4) items of an input of n
\* bytes and every item consumes at least four of them; when it ends, with
\* the last packet truncated or not, it has yielded every complete packet
\* and nothing for the fragment; once a call has returned None every later
\* call returns None and yields no item.
C8_StreamTerminates ==
  /\ [](phase = "stream" =>
          /\ WordBytes * Len(items) + Len(bytes) <= Len(Concat(packets) \o frag)
          /\ ended => (ItemsArePackets /\ Len(items) = Len(packets)))
  /\ [][(Len(items') > Len(items) /\ phase = "stream") =>
          Len(bytes') + WordBytes <= Len(bytes)]_vars
  /\ [][ended => (ended' /\ items' = items)]_vars

\* the stream ended on a truncated packet of more than three bytes after
\* yielding a complete one, and was asked again
C8_Witness ==
  /\ phase = "stream"
  /\ ended
  /\ endcalls = 2
  /\ Len(frag) > 3
  /\ Len(packets) >= 1
  /\ Len(items) = Len(packets)

\* bit-for-bit equality of two packets outside the channel field (the low
\* nibble of the second byte of word 0)
SameOutsideChannel(p, q) ==
  /\ Len(p) = Len(q)
  /\ p[1][1] = q[1][1]
  /\ p[1][2] \div 16 = q[1][2] \div 16
  /\ p[1][3] = q[1][3]
  /\ p[1][4] = q[1][4]
  /\ \A k \in 2..Len(p) : p[k] = q[k]

\* channel() of the category of m
channel_of(m) ==
  IF m.cat = "LegacyChannelVoice" THEN LegacyChannelVoice_channel(m)
  ELSE ChannelVoice_channel(m)

\* C9: after any sequence of with_channel calls channel() returns the last
\* channel written and every bit outside the channel field is that of the
\* original message.
C9_WithChannelFrame ==
  lastch # -1
    => /\ channel_of(src) = lastch
       /\ SameOutsideChannel(src.packet, base.packet)

\* C10: message_type() of a freshly constructed Utility, LegacyChannelVoice
\* or ChannelVoice message is the type of its category (the debug assertion
\* holds) and the packet has the width of its own type nibble.
C10_ConstructedType ==
  (phase = "typed" /\ ctor # "none" /\ lastch = -1)
    => /\ mt = src.cat
       /\ Packet_message_type(src.packet) = OwnNibble(src.cat)
       /\ Len(src.packet) = WidthTable(Packet_message_type(src.packet))

\* the status kind a channel voice constructor is named for
NamedStatus(c) ==
  CASE c \in {"LegacyChannelVoice::note_off", "ChannelVoice::note_off"} -> "NoteOff"
    [] c \in {"LegacyChannelVoice::note_on", "ChannelVoice::note_on"} -> "NoteOn"
    [] c \in {"LegacyChannelVoice::poly_pressure", "ChannelVoice::poly_pressure"} ->
         "PolyPressure"
    [] c \in {"LegacyChannelVoice::control_change", "ChannelVoice::control_change"} ->
         "ControlChange"
    [] c \in {"LegacyChannelVoice::program_change", "ChannelVoice::program_change"} ->
         "ProgramChange"
    [] c \in {"LegacyChannelVoice::channel_pressure", "ChannelVoice::channel_pressure"} ->
         "ChannelPressure"
    [] c \in {"LegacyChannelVoice::pitch_bend", "ChannelVoice::pitch_bend"} -> "PitchBend"
    [] c = "ChannelVoice::per_note_pitch_bend" -> "PerNotePitchBend"
    [] OTHER -> "none"

\* C11: status() of a message built by a named constructor of
\* LegacyChannelVoice or ChannelVoice returns the status kind the
\* constructor is named for.
C11_ConstructedStatus ==
  (phase = "status" /\ lastch = -1 /\ NamedStatus(ctor) # "none")
    => st = NamedStatus(ctor)

\* the public constructors of Utility
UtilityCtors ==
  {"Utility::jr_timestamp", "Utility::jr_clock", "Utility::delta_clockstamp",
   "Utility::delta_clockstamp_ticks_per_quarternote"}

\* the message constructor c of Utility builds from x
UtilityBuilt(c, x) ==
  CASE c = "Utility::jr_timestamp" -> Utility_jr_timestamp(x)
    [] c = "Utility::jr_clock" -> Utility_jr_clock(x)
    [] c = "Utility::delta_clockstamp" -> Utility_delta_clockstamp(x)
    [] c = "Utility::delta_clockstamp_ticks_per_quarternote" ->
         Utility_delta_clockstamp_ticks_per_quarternote(x)

\* the status kind a constructor of Utility is named for
UtilityNamedStatus(c) ==
  CASE c = "Utility::jr_timestamp" -> "JrTimestamp"
    [] c = "Utility::jr_clock" -> "JrClock"
    [] c = "Utility::delta_clockstamp" -> "DeltaClockstamp"
    [] c = "Utility::delta_clockstamp_ticks_per_quarternote" ->
         "DataClockstampTicksPerQuarternote"

\* C12: status() of a message built by a constructor of Utility from a
\* 16-bit x returns the kind the constructor is named for, its data() is x,
\* and no other constructor builds the same packet from x.
C12_UtilityConstructed ==
  (phase = "status" /\ ctor \in UtilityCtors)
    => /\ st = UtilityNamedStatus(ctor)
       /\ \A x \in U16s :
            src = UtilityBuilt(ctor, x)
              => /\ Utility_data(src) = x
                 /\ \A d \in UtilityCtors \ {ctor} : UtilityBuilt(d, x) # src

\* a legacy message with a defined status kind has been converted
ConvertedLegacy == phase = "converted" /\ LegacyChannelVoice_status(src) # Panic

\* C13: ChannelVoice::from of a legacy message returns a message of the
\* same status kind as the legacy message.
C13_ConversionKeepsStatus ==
  ConvertedLegacy
    => /\ cv # PanicMsg
       /\ ChannelVoice_status(cv) = LegacyChannelVoice_status(src)

\* C14: ChannelVoice::from of a legacy message keeps the channel, the note
\* number of a NoteOn, NoteOff or PolyPressure and the index of a
\* ControlChange.
C14_ConversionKeepsFields ==
  ConvertedLegacy
    => /\ cv # PanicMsg
       /\ ChannelVoice_channel(cv) = LegacyChannelVoice_channel(src)
       /\ LegacyChannelVoice_status(src) \in {"NoteOn", "NoteOff", "PolyPressure"}
            => ChannelVoice_note_number(host, cv) = LegacyChannelVoice_note_number(src)
       /\ LegacyChannelVoice_status(src) = "ControlChange"
            => ChannelVoice_cc_index(host, cv) = LegacyChannelVoice_cc_index(src)

\* the u32 of value n (n below 2^31)
U32Of(n) ==
  <<n \div 16777216, (n \div 65536) % 256, (n \div 256) % 256, n % 256>>

\* a legacy message of status kind k has been converted
ConvertedKind(k) == ConvertedLegacy /\ LegacyChannelVoice_status(src) = k

\* C15: converting a legacy NoteOn or NoteOff of 7-bit velocity v gives a
\* message whose velocity() is v << 8, for every channel and note.
C15_VelocityScaled ==
  ((ConvertedKind("NoteOn") \/ ConvertedKind("NoteOff"))
     /\ LegacyChannelVoice_note_number(src) < 128
     /\ LegacyChannelVoice_velocity(src) < 128)
    => /\ cv # PanicMsg
       /\ ChannelVoice_velocity(host, cv) = LegacyChannelVoice_velocity(src) * 256

\* a legacy note message of velocity 0x7F on channel 5 converted to
\* velocity 0x7F00
C15_Witness ==
  /\ ConvertedKind("NoteOn")
  /\ LegacyChannelVoice_channel(src) = 5
  /\ LegacyChannelVoice_velocity(src) = \H7f
  /\ cv # PanicMsg
  /\ ChannelVoice_velocity(host, cv) = \H7f00

\* C16: converting a legacy PolyPressure or ChannelPressure of 7-bit
\* pressure p gives a message whose data word (poly_pressure_value(), the
\* second word of the packet) is p << 24.
C16_PressureScaled ==
  /\ (ConvertedKind("PolyPressure")
        /\ LegacyChannelVoice_poly_pressure_note(src) < 128
        /\ LegacyChannelVoice_poly_pressure_value(src) < 128)
       => /\ cv # PanicMsg
          /\ ChannelVoice_poly_pressure_value(host, cv) =
               <<LegacyChannelVoice_poly_pressure_value(src), 0, 0, 0>>
  /\ (ConvertedKind("ChannelPressure")
        /\ LegacyChannelVoice_channel_pressure_value(src) < 128)
       => /\ cv # PanicMsg
          /\ cv.packet[2] =
               <<LegacyChannelVoice_channel_pressure_value(src), 0, 0, 0>>

\* a legacy ChannelPressure of pressure 0x40 converted to 0x40000000
C16_Witness ==
  /\ ConvertedKind("ChannelPressure")
  /\ LegacyChannelVoice_channel_pressure_value(src) = \H40
  /\ cv # PanicMsg
  /\ cv.packet[2] = <<\H40, 0, 0, 0>>

\* C17: converting a legacy ControlChange of 7-bit index and value v
\* completes and gives a message whose cc_value() is v << 24.
C17_ControlValueScaled ==
  (ConvertedKind("ControlChange")
     /\ LegacyChannelVoice_cc_index(src) < 128
     /\ LegacyChannelVoice_cc_value(src) < 128)
    => /\ cv # PanicMsg
       /\ ChannelVoice_cc_value(host, cv) =
            <<LegacyChannelVoice_cc_value(src), 0, 0, 0>>

\* C18: converting a legacy PitchBend of 14-bit value v gives a message
\* whose pitch_bend_value() is v << 14.
C18_PitchBendScaled ==
  (ConvertedKind("PitchBend") /\ LegacyChannelVoice_pitch_bend_value(src) < 16384)
    => /\ cv # PanicMsg
       /\ ChannelVoice_pitch_bend_value(host, cv) =
            U32Of(LegacyChannelVoice_pitch_bend_value(src) * 16384)

\* C19: converting the legacy PitchBend centre 0x2000 gives the pitch bend
\* value 0x20000000.
C19_PitchBendCentre ==
  (ConvertedKind("PitchBend") /\ LegacyChannelVoice_pitch_bend_value(src) = \H2000)
    => /\ cv # PanicMsg
       /\ ChannelVoice_pitch_bend_value(host, cv) = <<\H20, 0, 0, 0>>

\* C20: converting a legacy ProgramChange of program p gives a message
\* whose bank-valid flag (bit 0 of the low byte of word 0) is 0, whose bank
\* bytes are 0 and whose program byte (top byte of word 1) is p.
C20_ProgramChangeBankAbsent ==
  (ConvertedKind("ProgramChange")
     /\ LegacyChannelVoice_program_change_value(src) < 128)
    => /\ cv # PanicMsg
       /\ cv.packet[1][4] % 2 = 0
       /\ cv.packet[2][3] = 0
       /\ cv.packet[2][4] = 0
       /\ cv.packet[2][1] = LegacyChannelVoice_program_change_value(src)

\* a legacy ProgramChange of a nonzero program on channel 5 converted
C20_Witness ==
  /\ ConvertedKind("ProgramChange")
  /\ LegacyChannelVoice_channel(src) = 5
  /\ LegacyChannelVoice_program_change_value(src) = \H40
  /\ cv # PanicMsg
  /\ cv.packet[2] = <<\H40, 0, 0, 0>>

\* C21: program_change() of a ProgramChange packet reports the bank absent
\* when bit 0 of word 0 is 0, whatever the bank bytes are, and reports the
\* bank of word 1 when that bit is 1, whatever the group, the channel and
\* the host byte order are.
C21_BankValidBit ==
  (phase = "program" /\ Voice_status(vmsg) = "ProgramChange")
    => IF vmsg.packet[1][4] % 2 = 0
       THEN ~pc.bank_some
       ELSE /\ pc.bank_some
            /\ pc.bank = vmsg.packet[2][3] * 256 + vmsg.packet[2][4]

----------------------------------------------------------------------------
(* Properties of the conversion between MidiMessage and UMP *)

\* C22: a Utility message (NoOp, JrClock(x), JrTimestamp(x)) of any group
\* below 16 converted to a UMP and back is the message it started as
C22_UtilityRoundTrip ==
  (phase = "back" /\ rmsg.kind = "Utility") => rback = rmsg

\* the clock of the test case has gone through both conversions
C22_Witness ==
  /\ phase = "back"
  /\ rmsg.kind = "Utility"
  /\ rmsg.variant = "JrClock"
  /\ rmsg.args = <<\Hdead>>
  /\ rump = UMP("U32", <<rmsg.group, \H10, \Had, \Hde>>)
  /\ rback = rmsg

\* C23: a SystemCommon, SystemRealtime, LegacyChannelVoice or ChannelVoice
\* message with its fields in range converted to a UMP and back is the
\* message it started as
C23_MessageRoundTrip ==
  (phase = "back"
     /\ rmsg.kind \in {"SystemCommon", "SystemRealtime", "LegacyChannelVoice",
                       "ChannelVoice"})
    => rback = rmsg

----------------------------------------------------------------------------
(* Properties of the flex header conversions *)

\* C24: FlexStatus::from(x) of a 16-bit x with bank >= 3 is Reserved
\* carrying x, and whenever FlexStatus::from(x) returns, in any bank,
\* u16::from of the result is x
C24_FlexStatusRoundTrip ==
  (ffn = "status" /\ phase \in {"flexed", "flexback"})
    => /\ fin[1] \div 256 >= 3
            => fout = FlexStatusValue("Reserved", NoFlex, fin[1])
       /\ phase = "flexback" => fback = fin[1]

\* a reserved bank with a status byte has gone both ways
C24_Witness ==
  /\ ffn = "status"
  /\ phase = "flexback"
  /\ fin = <<\H7f05>>
  /\ fout.tag = "Reserved"
  /\ fback = \H7f05

\* the bound from which each From<u8> of the flex status enums panics
FlexLimit(f) ==
  CASE f = "setup" -> \H10
    [] f = "metadata" -> \H0D
    [] f = "performance" -> 5

\* C25: FlexSetupAndPerformance::from(v) panics for v >= 0x10,
\* FlexMetadataText::from(v) for v >= 0x0D, FlexPerformanceTextEvent::from(v)
\* for v >= 5; for a smaller v each returns a variant whose u8 is v
C25_FlexEnumBounds ==
  (ffn \in {"setup", "metadata", "performance"}
     /\ phase \in {"flexed", "flexback"})
    => /\ fin[1] >= FlexLimit(ffn) => fout = FlexPanic
       /\ fin[1] < FlexLimit(ffn) => fout.tag \notin {Panic, "none"}
       /\ phase = "flexback" => fback = fin[1]

\* SetKeySignature has gone both ways
C25_Witness ==
  /\ ffn = "setup"
  /\ phase = "flexback"
  /\ fin = <<\H05>>
  /\ fout = FlexValue("SetKeySignature", 0)
  /\ fback = \H05

\* the variant of FlexAddress for bits 4-5 of the byte
FlexAddressName(bits) ==
  CASE bits = 0 -> "Channel"
    [] bits = 1 -> "Group"
    [] bits = 2 -> "Reserved1"
    [] bits = 3 -> "Reserved2"

\* C26: FlexAddress::from(b) returns for every byte b the variant named by
\* bits 4-5 carrying the low nibble, and u8::from of it is b & 0x3F
C26_FlexAddressRoundTrip ==
  (ffn = "address" /\ phase \in {"flexed", "flexback"})
    => /\ fout = FlexValue(FlexAddressName((fin[1] \div 16) % 4), fin[1] % 16)
       /\ phase = "flexback" => fback = fin[1] % 64

\* a byte with bit 6 set has gone both ways
C26_Witness ==
  /\ ffn = "address"
  /\ phase = "flexback"
  /\ fin = <<\H5a>>
  /\ fout = FlexValue("Group", \H0a)
  /\ fback = \H1a

\* C27: FlexKeySignature::from_note(t, s) for t in 0..15 and s in -8..7
\* stores ((s mod 16) << 4) | t, sharps_or_flats() returns s and
\* tonic_note() returns t; u8::from(FlexKeySignature::from(b)) is b
C27_KeySignature ==
  /\ (ffn = "from_note" /\ phase \in {"flexed", "flexback"})
       => /\ fout.byte = (fin[2] % 16) * 16 + fin[1]
          /\ phase = "flexback" => fback = <<fin[2], fin[1]>>
  /\ (ffn = "key_signature" /\ phase = "flexback") => fback = fin[1]

\* two flats on tonic 3 have been stored and read back
C27_Witness ==
  /\ ffn = "from_note"
  /\ phase = "flexback"
  /\ fin = <<3, -2>>
  /\ fout.byte = \He3
  /\ fback = <<-2, 3>>

----------------------------------------------------------------------------
(* Properties of the two ways of splitting a buffer *)

\* C28: a buffer split by UMP::stream_from_bytes and by repeated
\* codec::decode gives the same packet widths in the same order, on a
\* little-endian and on a big-endian host
C28_SameSplit ==
  (phase = "split" /\ sdone /\ ddone) => swidths = dwidths

----------------------------------------------------------------------------
(* Properties of the constructors read back through the accessors *)

\* the message constructor c of ChannelVoice builds from a note, a
\* velocity and an attribute
NoteBuilt(c, b, n, v, a) ==
  CASE c = "ChannelVoice::note_on" -> ChannelVoice_note_on(b, n, v, a)
    [] c = "ChannelVoice::note_off" -> ChannelVoice_note_off(b, n, v, a)

\* C29: on ChannelVoice::note_on(n, v, a) and ChannelVoice::note_off(n, v, a)
\* with n < 128, velocity() is v, attribute_data() is the data of a (0 for
\* None) and note_number() is n, on either host
C29_NoteReadBack ==
  (phase = "built" /\ ctor \in {"ChannelVoice::note_on", "ChannelVoice::note_off"})
    => \A n \in U7s, v \in U16s, a \in Attributes :
         src = NoteBuilt(ctor, build, n, v, a)
           => /\ ChannelVoice_velocity(host, src) = v
              /\ ChannelVoice_attribute_data(host, src) = a.data
              /\ ChannelVoice_note_number(host, src) = n

\* the constructors of LegacyChannelVoice that take two 7-bit arguments
LegacyPairCtors ==
  {"LegacyChannelVoice::note_off", "LegacyChannelVoice::note_on",
   "LegacyChannelVoice::poly_pressure", "LegacyChannelVoice::control_change",
   "LegacyChannelVoice::program_change"}

\* the message constructor c of LegacyChannelVoice builds from x and y
LegacyPairBuilt(c, b, x, y) ==
  CASE c = "LegacyChannelVoice::note_off" -> LegacyChannelVoice_note_off(b, x, y)
    [] c = "LegacyChannelVoice::note_on" -> LegacyChannelVoice_note_on(b, x, y)
    [] c = "LegacyChannelVoice::poly_pressure" ->
         LegacyChannelVoice_poly_pressure(b, x, y)
    [] c = "LegacyChannelVoice::control_change" ->
         LegacyChannelVoice_control_change(b, x, y)
    [] c = "LegacyChannelVoice::program_change" ->
         LegacyChannelVoice_program_change(b, x, y)

\* what the accessors that match constructor c return on m: both
\* arguments, or the first alone for program_change
LegacyPairRead(c, m) ==
  CASE c \in {"LegacyChannelVoice::note_off", "LegacyChannelVoice::note_on"} ->
         <<LegacyChannelVoice_note_number(m), LegacyChannelVoice_velocity(m)>>
    [] c = "LegacyChannelVoice::poly_pressure" ->
         <<LegacyChannelVoice_poly_pressure_note(m),
           LegacyChannelVoice_poly_pressure_value(m)>>
    [] c = "LegacyChannelVoice::control_change" ->
         <<LegacyChannelVoice_cc_index(m), LegacyChannelVoice_cc_value(m)>>
    [] c = "LegacyChannelVoice::program_change" ->
         <<LegacyChannelVoice_program_change_value(m)>>

\* C30: every constructor of LegacyChannelVoice reads back its in-range
\* arguments through the matching accessors; pitch_bend(b) gives
\* pitch_bend_value() = b for every 14-bit b
C30_LegacyReadBack ==
  phase = "built"
    => /\ ctor \in LegacyPairCtors
            => \A x \in U7s, y \in U7s :
                 src = LegacyPairBuilt(ctor, build, x, y)
                   => LegacyPairRead(ctor, src)
                        = IF ctor = "LegacyChannelVoice::program_change"
                          THEN <<x>> ELSE <<x, y>>
       /\ ctor = "LegacyChannelVoice::channel_pressure"
            => \A x \in U7s :
                 src = LegacyChannelVoice_channel_pressure(build, x)
                   => LegacyChannelVoice_channel_pressure_value(src) = x
       /\ ctor = "LegacyChannelVoice::pitch_bend"
            => \A x \in U14s :
                 src = LegacyChannelVoice_pitch_bend(build, x)
                   => LegacyChannelVoice_pitch_bend_value(src) = x

\* the largest pitch bend has been built and reads back
C30_Witness ==
  /\ phase = "built"
  /\ ctor = "LegacyChannelVoice::pitch_bend"
  /\ src = LegacyChannelVoice_pitch_bend(build, \H3fff)
  /\ LegacyChannelVoice_pitch_bend_value(src) = \H3fff

====
